---- MODULE Spec2Model ----
(***************************************************************************)
(* FlowRead: batch boundary selection, chunking orchestration with         *)
(* fallback, incremental batch loading (upload / load more / prefetch)     *)
(* over the local book and chunk store, genre detection, PDF extraction    *)
(* and the repair of extracted text, the library (selecting a book, the    *)
(* removal of duplicate chunks, cloud sync, clear cache) and the import of *)
(* an article from a URL.                                                  *)
(*                                                                         *)
(* Texts are sequences of one-character strings; offsets are the 0-based   *)
(* offsets of the JavaScript source.  The size constants of the source     *)
(* (BATCH_SIZE 20000, minChunkSize 5000, lookback 2000, the paragraph and  *)
(* buffer thresholds of the fallback segmenter) are scaled down so that    *)
(* texts of a few characters span several batches; the lookback cap is 4,  *)
(* the shortest window that can hold a paragraph break and a later newline.*)
(***************************************************************************)
EXTENDS Integers, Sequences, FiniteSets, TLC

\* ---------------------------------------------------------------- bounds
MaxTextLen == 7      \* longest text drawn as input of findSafeBatchEnd
MaxLimit == 6        \* largest targetLimit drawn as input
MaxRawLen == 6       \* longest raw text walked batch by batch
MaxWindowLen == 5    \* longest window handed to semanticChunking
MaxItems == 6        \* most segments in one answer of the service
MaxBooks == 1        \* most books uploaded
MaxLoads == 2        \* most handleLoadMore invocations in flight at once
MaxChunkRows == 3    \* no new load more is requested beyond this many rows
MaxFallbackLen == 6  \* longest text handed to the fallback segmenters directly
MaxPages == 2        \* most pages of an uploaded PDF document
MaxPageLines == 4    \* most lines on one page of a PDF document
MaxTokens == 3       \* most words of a text handed to cleanExtractedText
MaxLibraryBooks == 2 \* most books in the library that is opened and synced

\* ------------------------------------------------------ program constants
BATCH_SIZE == 4          \* App.tsx: 20000, scaled
DEFAULT_MIN_CHUNK == 1   \* textUtils.ts: minChunkSize default 5000, scaled
LOOKBACK_CAP == 4        \* textUtils.ts: Math.min(2000, ...), scaled
LONG_PARA == 4           \* geminiService.ts: trimmed.length > 300, scaled
BUFFER_MAX == 3          \* geminiService.ts: (buffer + sentence).length < 250, scaled
MIN_UPLOAD_LEN == 2      \* App.tsx: text.length < 10, scaled
PREFETCH_THRESHOLD == 1  \* ReaderView.tsx: 20, scaled
MIN_ARTICLE_LEN == 2     \* App.tsx handleUrlSubmit: 50, scaled
LONG_PARA_AI == 3       \* ai/fallback.ts: 150, paragraphs longer than this are split
BUFFER_MAX_AI == 2      \* ai/fallback.ts: 120, sentences are packed below this length

\* ------------------------------------------------------------ text model
NL == "\n"
BatchChars == {"a", NL, ".", "!"}

Min(a, b) == IF a <= b THEN a ELSE b
Max(a, b) == IF a >= b THEN a ELSE b

\* all sequences over S of length at most n
SeqsUpTo(S, n) == UNION {[1..k -> S] : k \in 0..n}

\* String.prototype.slice(a, b): negative offsets count from the end, both
\* ends are clamped to [0, length], an empty range gives "".
Slice(s, a, b) ==
    LET n == Len(s)
        from == IF a < 0 THEN Max(n + a, 0) ELSE Min(a, n)
        to == IF b < 0 THEN Max(n + b, 0) ELSE Min(b, n)
    IN IF from >= to THEN <<>> ELSE SubSeq(s, from + 1, to)

\* String.prototype.slice(a)
SliceFrom(s, a) == Slice(s, a, Len(s))

\* String.prototype.lastIndexOf(pat): 0-based offset of the last occurrence
\* of pat, -1 when there is none.
LastIndexOf(s, pat) ==
    LET hits == {i \in 0..(Len(s) - Len(pat)) : SubSeq(s, i + 1, i + Len(pat)) = pat}
    IN IF hits = {} THEN -1 ELSE CHOOSE i \in hits : \A j \in hits : j <= i

\* ['.', '!', '?'].includes(char)
IsSentenceEnd(c) == c \in {".", "!", "?"}

\* the backward loop of findSafeBatchEnd: the largest i with a sentence
\* terminal at searchArea[i], -1 when the loop runs out.
LastSentenceEnd(s) ==
    LET hits == {i \in 0..(Len(s) - 1) : IsSentenceEnd(s[i + 1])}
    IN IF hits = {} THEN -1 ELSE CHOOSE i \in hits : \A j \in hits : j <= i

\* a faulty variant: the cut is made before the sentence terminal, not after
findSafeBatchEnd_CutsBeforeTerminal(text, targetLimit, minChunkSize) ==
    IF Len(text) <= targetLimit THEN Len(text)
    ELSE
      LET effectiveLimit == Min(Len(text), targetLimit)
          lookbackWindow == Min(LOOKBACK_CAP, effectiveLimit - minChunkSize)
          searchStart == effectiveLimit - lookbackWindow
          searchArea == Slice(text, searchStart, effectiveLimit)
          lastParagraphBreak == LastIndexOf(searchArea, <<NL, NL>>)
          lastNewline == LastIndexOf(searchArea, <<NL>>)
          lastSentence == LastSentenceEnd(searchArea)
      IN IF lastParagraphBreak # -1 THEN searchStart + lastParagraphBreak + 2
         ELSE IF lastNewline # -1 THEN searchStart + lastNewline + 1
         ELSE IF lastSentence # -1 THEN searchStart + lastSentence
         ELSE effectiveLimit

\* a faulty variant: the search area runs to the end of the text instead of
\* stopping at the limit, so a break past the limit is taken
findSafeBatchEnd_SearchWholeText(text, targetLimit, minChunkSize) ==
    IF Len(text) <= targetLimit THEN Len(text)
    ELSE
      LET effectiveLimit == Min(Len(text), targetLimit)
          lookbackWindow == Min(LOOKBACK_CAP, effectiveLimit - minChunkSize)
          searchStart == effectiveLimit - lookbackWindow
          searchArea == SliceFrom(text, searchStart)
          lastParagraphBreak == LastIndexOf(searchArea, <<NL, NL>>)
          lastNewline == LastIndexOf(searchArea, <<NL>>)
          lastSentence == LastSentenceEnd(searchArea)
      IN IF lastParagraphBreak # -1 THEN searchStart + lastParagraphBreak + 2
         ELSE IF lastNewline # -1 THEN searchStart + lastNewline + 1
         ELSE IF lastSentence # -1 THEN searchStart + lastSentence + 1
         ELSE effectiveLimit

\* a faulty variant: no early return for a text within the limit and no
\* clamp of the limit to the length of the text
findSafeBatchEnd_IgnoresLength(text, targetLimit, minChunkSize) ==
    LET effectiveLimit == targetLimit
        lookbackWindow == Min(LOOKBACK_CAP, effectiveLimit - minChunkSize)
        searchStart == effectiveLimit - lookbackWindow
        searchArea == Slice(text, searchStart, effectiveLimit)
        lastParagraphBreak == LastIndexOf(searchArea, <<NL, NL>>)
        lastNewline == LastIndexOf(searchArea, <<NL>>)
        lastSentence == LastSentenceEnd(searchArea)
    IN IF lastParagraphBreak # -1 THEN searchStart + lastParagraphBreak + 2
       ELSE IF lastNewline # -1 THEN searchStart + lastNewline + 1
       ELSE IF lastSentence # -1 THEN searchStart + lastSentence + 1
       ELSE effectiveLimit

\* a faulty variant: the last single newline is preferred to the last
\* paragraph break
findSafeBatchEnd_NewlineFirst(text, targetLimit, minChunkSize) ==
    IF Len(text) <= targetLimit THEN Len(text)
    ELSE
      LET effectiveLimit == Min(Len(text), targetLimit)
          lookbackWindow == Min(LOOKBACK_CAP, effectiveLimit - minChunkSize)
          searchStart == effectiveLimit - lookbackWindow
          searchArea == Slice(text, searchStart, effectiveLimit)
          lastNewline == LastIndexOf(searchArea, <<NL>>)
          lastSentence == LastSentenceEnd(searchArea)
      IN IF lastNewline # -1 THEN searchStart + lastNewline + 1
         ELSE IF lastSentence # -1 THEN searchStart + lastSentence + 1
         ELSE effectiveLimit

\* a faulty variant: the whole text before the limit is searched, not only
\* the lookback window
findSafeBatchEnd_SearchFromStart(text, targetLimit, minChunkSize) ==
    IF Len(text) <= targetLimit THEN Len(text)
    ELSE
      LET effectiveLimit == Min(Len(text), targetLimit)
          searchStart == 0
          searchArea == Slice(text, searchStart, effectiveLimit)
          lastParagraphBreak == LastIndexOf(searchArea, <<NL, NL>>)
          lastNewline == LastIndexOf(searchArea, <<NL>>)
          lastSentence == LastSentenceEnd(searchArea)
      IN IF lastParagraphBreak # -1 THEN searchStart + lastParagraphBreak + 2
         ELSE IF lastNewline # -1 THEN searchStart + lastNewline + 1
         ELSE IF lastSentence # -1 THEN searchStart + lastSentence + 1
         ELSE effectiveLimit

findSafeBatchEnd(text, targetLimit, minChunkSize) ==
    IF Len(text) <= targetLimit THEN Len(text)
    ELSE
      LET effectiveLimit == Min(Len(text), targetLimit)
          lookbackWindow == Min(LOOKBACK_CAP, effectiveLimit - minChunkSize)
          searchStart == effectiveLimit - lookbackWindow
          searchArea == Slice(text, searchStart, effectiveLimit)
          lastParagraphBreak == LastIndexOf(searchArea, <<NL, NL>>)
          lastNewline == LastIndexOf(searchArea, <<NL>>)
          lastSentence == LastSentenceEnd(searchArea)
      IN IF lastParagraphBreak # -1 THEN searchStart + lastParagraphBreak + 2
         ELSE IF lastNewline # -1 THEN searchStart + lastNewline + 1
         ELSE IF lastSentence # -1 THEN searchStart + lastSentence + 1
         ELSE effectiveLimit

\* ----------------------------------------------------- fallback segmenter
\* JavaScript's undefined, kept apart from every string (strings are
\* sequences of one-character strings).
Undefined == <<"undefined">>

\* truthiness of an optional string: undefined and "" are falsy
Truthy(v) == v # Undefined /\ v # <<>>

STR_Chapter == <<"C", "h", "a", "p", "t", "e", "r">>
STR_Chapter1 == STR_Chapter \o <<" ", "1">>
STR_UnknownChapter == <<"U", "n", "k", "n", "o", "w", "n", " ">> \o STR_Chapter
STR_BookContent == <<"B", "o", "o", "k", " ", "C", "o", "n", "t", "e", "n", "t">>

UpperLetters == <<"A", "B", "C", "D", "E", "F", "G", "H", "I", "J", "K", "L", "M",
                  "N", "O", "P", "Q", "R", "S", "T", "U", "V", "W", "X", "Y", "Z">>
LowerLetters == <<"a", "b", "c", "d", "e", "f", "g", "h", "i", "j", "k", "l", "m",
                  "n", "o", "p", "q", "r", "s", "t", "u", "v", "w", "x", "y", "z">>

IsUpper(c) == \E i \in 1..26 : UpperLetters[i] = c
IsLower(c) == \E i \in 1..26 : LowerLetters[i] = c
IsLetter(c) == IsUpper(c) \/ IsLower(c)
IsDigit(c) == c \in {"0", "1", "2", "3", "4", "5", "6", "7", "8", "9"}
\* \w
IsWordChar(c) == IsLetter(c) \/ IsDigit(c) \/ c = "_"
\* \s (and the characters String.prototype.trim strips)
IsSpace(c) == c \in {" ", NL, "\t", "\r", "\f"}
Lower(c) == IF IsUpper(c) THEN LowerLetters[CHOOSE i \in 1..26 : UpperLetters[i] = c] ELSE c

\* String.prototype.trim
RECURSIVE TrimLeft(_)
TrimLeft(s) == IF s # <<>> /\ IsSpace(Head(s)) THEN TrimLeft(Tail(s)) ELSE s
RECURSIVE TrimRight(_)
TrimRight(s) ==
    IF s # <<>> /\ IsSpace(s[Len(s)]) THEN TrimRight(SubSeq(s, 1, Len(s) - 1)) ELSE s
Trim(s) == TrimRight(TrimLeft(s))

\* text.split(/\n\n+/): cut at every maximal run of two or more newlines
RECURSIVE SplitParagraphs(_)
SplitParagraphs(s) ==
    LET breaks == {i \in 1..(Len(s) - 1) : s[i] = NL /\ s[i + 1] = NL}
    IN IF breaks = {} THEN <<s>>
       ELSE LET b == CHOOSE i \in breaks : \A j \in breaks : i <= j
                after == {k \in (b + 2)..Len(s) : s[k] # NL}
                r == IF after = {} THEN Len(s) + 1
                     ELSE CHOOSE k \in after : \A j \in after : k <= j
            IN <<SubSeq(s, 1, b - 1)>> \o SplitParagraphs(SubSeq(s, r, Len(s)))

\* s starts with word (lower case), compared case-insensitively
StartsWithCI(s, word) ==
    /\ Len(s) >= Len(word)
    /\ \A i \in 1..Len(word) : Lower(s[i]) = word[i]

\* after the first n characters of s: \s+ and then one character of the
\* class, \d when digitOnly and \w otherwise
SpacesThen(s, n, digitOnly) ==
    \E j \in (n + 1)..(Len(s) - 1) :
        /\ \A i \in (n + 1)..j : IsSpace(s[i])
        /\ IF digitOnly THEN IsDigit(s[j + 1]) ELSE IsWordChar(s[j + 1])

\* trimmed.match(/^(Chapter\s+\d+|Part\s+\w+|Prologue|Epilogue|[A-Z\s]{4,20}$)/i)
HeaderMatch(s) ==
    \/ StartsWithCI(s, <<"c", "h", "a", "p", "t", "e", "r">>) /\ SpacesThen(s, 7, TRUE)
    \/ StartsWithCI(s, <<"p", "a", "r", "t">>) /\ SpacesThen(s, 4, FALSE)
    \/ StartsWithCI(s, <<"p", "r", "o", "l", "o", "g", "u", "e">>)
    \/ StartsWithCI(s, <<"e", "p", "i", "l", "o", "g", "u", "e">>)
    \/ /\ Len(s) >= 4
       /\ Len(s) <= 20
       /\ \A i \in 1..Len(s) : IsLetter(s[i]) \/ IsSpace(s[i])

\* the straight quote characters of ["”']? (the typographic quote of the
\* source is outside the model's alphabet)
IsQuote(c) == c \in {"\"", "'"}

\* trimmed.match(/[^.!?]+[.!?]+["”']?|[^.!?]+$/g), scanning from position pos
\* (1-based): a terminal with no sentence before it is skipped.
RECURSIVE SentencesFrom(_, _)
SentencesFrom(s, pos) ==
    IF pos > Len(s) THEN <<>>
    ELSE IF IsSentenceEnd(s[pos]) THEN SentencesFrom(s, pos + 1)
    ELSE
      LET terms == {k \in pos..Len(s) : IsSentenceEnd(s[k])}
      IN IF terms = {} THEN <<SubSeq(s, pos, Len(s))>>
         ELSE LET t == CHOOSE k \in terms : \A j \in terms : k <= j
                  past == {k \in t..Len(s) : ~IsSentenceEnd(s[k])}
                  e == IF past = {} THEN Len(s) + 1
                       ELSE CHOOSE k \in past : \A j \in past : k <= j
                  stop == IF e <= Len(s) /\ IsQuote(s[e]) THEN e + 1 ELSE e
              IN <<SubSeq(s, pos, stop - 1)>> \o SentencesFrom(s, stop)

\* ... || [trimmed]
Sentences(s) == IF SentencesFrom(s, 1) = <<>> THEN <<s>> ELSE SentencesFrom(s, 1)

FbPiece(t, chapter) == [text |-> t, chapter |-> chapter, context |-> STR_BookContent]

\* sentences.forEach(...) and the final flush of the buffer
RECURSIVE PackSentences(_, _, _, _)
PackSentences(sents, buffer, chapter, bufferMax) ==
    IF sents = <<>>
    THEN IF buffer # <<>> THEN <<FbPiece(Trim(buffer), chapter)>> ELSE <<>>
    ELSE IF Len(buffer \o Head(sents)) < bufferMax
         THEN PackSentences(Tail(sents), buffer \o Head(sents), chapter, bufferMax)
         ELSE (IF buffer # <<>> THEN <<FbPiece(Trim(buffer), chapter)>> ELSE <<>>)
              \o PackSentences(Tail(sents), Head(sents), chapter, bufferMax)

\* rawParagraphs.forEach(...), threading currentChapter
RECURSIVE ChunkParagraphs(_, _, _, _)
ChunkParagraphs(paras, currentChapter, longPara, bufferMax) ==
    IF paras = <<>> THEN <<>>
    ELSE
      LET trimmed == Trim(Head(paras))
          chapter == IF HeaderMatch(trimmed) /\ Len(trimmed) < 60
                     THEN trimmed ELSE currentChapter
      IN IF Len(trimmed) = 0
         THEN ChunkParagraphs(Tail(paras), currentChapter, longPara, bufferMax)
         ELSE (IF Len(trimmed) > longPara
               THEN PackSentences(Sentences(trimmed), <<>>, chapter, bufferMax)
               ELSE <<FbPiece(trimmed, chapter)>>)
              \o ChunkParagraphs(Tail(paras), chapter, longPara, bufferMax)

\* a faulty variant: the index is counted from one instead of zero
FallbackWith_IndexFromOne(txt, bookId, startIndex, previousContext, longPara, bufferMax) ==
    LET start == IF Truthy(previousContext) THEN previousContext
                 ELSE IF startIndex = 0 THEN STR_Chapter1 ELSE STR_UnknownChapter
        optimizedChunks == ChunkParagraphs(SplitParagraphs(txt), start, longPara, bufferMax)
    IN [idx \in 1..Len(optimizedChunks) |->
          [bookId |-> bookId,
           index |-> startIndex + idx,
           text |-> optimizedChunks[idx].text,
           chapterTitle |-> optimizedChunks[idx].chapter,
           contextLabel |-> optimizedChunks[idx].context,
           tags |-> <<"fallback">>]]

\* the body shared by the two fallback segmenters, which differ in their
\* thresholds only; chunk ids (uuidv4) are given when the chunks are stored
FallbackWith(txt, bookId, startIndex, previousContext, longPara, bufferMax) ==
    LET start == IF Truthy(previousContext) THEN previousContext
                 ELSE IF startIndex = 0 THEN STR_Chapter1 ELSE STR_UnknownChapter
        optimizedChunks == ChunkParagraphs(SplitParagraphs(txt), start, longPara, bufferMax)
    IN [idx \in 1..Len(optimizedChunks) |->
          [bookId |-> bookId,
           index |-> startIndex + (idx - 1),
           text |-> optimizedChunks[idx].text,
           chapterTitle |-> optimizedChunks[idx].chapter,
           contextLabel |-> optimizedChunks[idx].context,
           tags |-> <<"fallback">>]]

\* geminiService.ts
fallbackChunking(txt, bookId, startIndex, previousContext) ==
    FallbackWith(txt, bookId, startIndex, previousContext, LONG_PARA, BUFFER_MAX)

\* ai/fallback.ts
fallbackChunking_ai(txt, bookId, startIndex, previousContext) ==
    FallbackWith(txt, bookId, startIndex, previousContext, LONG_PARA_AI, BUFFER_MAX_AI)

\* ------------------------------------------------- chunking orchestrator
STR_Chapter2 == STR_Chapter \o <<" ", "2">>
STR_Chapter3 == STR_Chapter \o <<" ", "3">>

\* What the external service does with one generateContent call:
\*   throws       the call rejects (network, quota, timeout at the boundary)
\*   noText       response.text is empty
\*   unparseable  JSON.parse(response.text) throws
\*   notArray     the payload parses to something without .map
\*   items        the payload is a list of segments
FailureKinds == {"throws", "noText", "unparseable", "notArray"}

\* !t || t === "Unknown Chapter" || t.trim() === "Chapter"
IsPlaceholderTitle(t) ==
    \/ ~Truthy(t)
    \/ t = STR_UnknownChapter
    \/ Trim(t) = STR_Chapter

\* the title given to segment number idx (0-based) of a batch
finalChapterTitle(item, idx, startIndex, previousChapterContext) ==
    IF IsPlaceholderTitle(item.chapterTitle)
    THEN IF startIndex = 0 /\ idx < 5
         THEN STR_Chapter1
         ELSE IF Truthy(previousChapterContext) /\ previousChapterContext # STR_UnknownChapter
              THEN previousChapterContext
              ELSE IF Truthy(item.chapterTitle) THEN item.chapterTitle
                   ELSE STR_UnknownChapter
    ELSE item.chapterTitle

\* parsedData.map(...): item.text.split throws on a segment without text
MapThrows(items) == \E i \in 1..Len(items) : items[i].text = Undefined

MapItems(items, bookId, startIndex, previousChapterContext) ==
    [i \in 1..Len(items) |->
        [bookId |-> bookId,
         index |-> startIndex + (i - 1),
         text |-> items[i].text,
         chapterTitle |-> finalChapterTitle(items[i], i - 1, startIndex, previousChapterContext),
         contextLabel |-> items[i].contextLabel,
         tags |-> <<>>]]

Resolved(chunks, called) == [status |-> "resolved", chunks |-> chunks, called |-> called]
Rejected == [status |-> "rejected", chunks |-> <<>>, called |-> FALSE]

\* a faulty variant: the catch block calls the fallback without the
\* previous chapter context
semanticChunking_FallbackWithoutContext(apiKey, textSegment, bookId, startIndex, previousChapterContext, response) ==
    IF ~apiKey THEN Rejected
    ELSE IF Len(Trim(textSegment)) = 0 THEN Resolved(<<>>, FALSE)
    ELSE IF response.kind \in FailureKinds \/ MapThrows(response.items)
         THEN Resolved(fallbackChunking(textSegment, bookId, startIndex, Undefined), TRUE)
         ELSE Resolved(MapItems(response.items, bookId, startIndex, previousChapterContext), TRUE)

\* geminiService.ts semanticChunking: how the returned promise settles.
\* apiKey: process.env.API_KEY is set; response: what the service does if
\* it is called; called: whether generateContent was called.
semanticChunking(apiKey, textSegment, bookId, startIndex, previousChapterContext, response) ==
    IF ~apiKey THEN Rejected                                   \* getAiClient() throws
    ELSE IF Len(Trim(textSegment)) = 0 THEN Resolved(<<>>, FALSE)
    ELSE IF response.kind \in FailureKinds \/ MapThrows(response.items)
         THEN Resolved(fallbackChunking(textSegment, bookId, startIndex, previousChapterContext), TRUE)
         ELSE Resolved(MapItems(response.items, bookId, startIndex, previousChapterContext), TRUE)

Failure(kind) == [kind |-> kind, items |-> <<>>]
Items(items) == [kind |-> "items", items |-> items]

\* ---------------------------------------------------------- detectGenre
STR_fiction == <<"f", "i", "c", "t", "i", "o", "n">>
STR_non_fiction == <<"n", "o", "n", "_", "f", "i", "c", "t", "i", "o", "n">>
STR_technical == <<"t", "e", "c", "h", "n", "i", "c", "a", "l">>
STR_script == <<"s", "c", "r", "i", "p", "t">>

\* the two versions of detectGenre in genreDetector.ts and their labels
GenreVersions == {"current", "earlier"}
GenreLabels(version) ==
    IF version = "current" THEN {STR_fiction, STR_non_fiction, STR_technical, STR_script}
    ELSE {STR_fiction, STR_non_fiction, STR_technical}

\* s.toLowerCase()
ToLowerCase(s) == [i \in 1..Len(s) |-> Lower(s[i])]

\* What generateContent does for the classifier: it rejects with an error
\* whose message holds 'fetch', 'NetworkError' or 'not connected', or with
\* another error, or it answers with result.text (possibly undefined).
GenreThrowKinds == {"throwsFetch", "throwsNetworkError", "throwsNotConnected", "throwsOther"}
GenreAnswers ==
    {Undefined, <<>>, STR_fiction, STR_non_fiction, STR_technical, STR_script,
     <<" ", "F", "i", "c", "t", "i", "o", "n", NL>>,
     <<"p", "o", "e", "t", "r", "y">>,
     STR_fiction \o <<".">>}
GenreOutcomes ==
    {[kind |-> k, text |-> Undefined] : k \in GenreThrowKinds}
        \cup {[kind |-> "answer", text |-> t] : t \in GenreAnswers}

GenreResolved(g) == [status |-> "resolved", genre |-> g]
GenreRejected == [status |-> "rejected", genre |-> Undefined]

\* the catch block: the current version rethrows NETWORK_DISCONNECTED on a
\* network error or when navigator.onLine is false; the earlier one never does
GenreCatch(version, messageOfNetwork, online) ==
    IF version = "current" /\ (messageOfNetwork \/ ~online)
    THEN GenreRejected
    ELSE GenreResolved(STR_non_fiction)

\* how the promise of detectGenre settles; key: an API key is configured
detectGenre(version, key, online, outcome) ==
    IF ~key THEN GenreCatch(version, FALSE, online)          \* getAiClient() throws
    ELSE IF outcome.kind \in GenreThrowKinds
         THEN GenreCatch(version, outcome.kind # "throwsOther", online)
         ELSE LET t == IF Truthy(outcome.text) /\ Truthy(ToLowerCase(Trim(outcome.text)))
                       THEN ToLowerCase(Trim(outcome.text))
                       ELSE STR_non_fiction
              IN IF t \in GenreLabels(version) THEN GenreResolved(t)
                 ELSE GenreResolved(STR_non_fiction)

\* ------------------------------------------------------- PDF extraction

STR_LibraryNotLoaded == "PDF.js library not loaded. Please refresh the page."
STR_FailedToParse == "Failed to parse PDF. It might be encrypted or corrupted."

\* String(pageNum)
RECURSIVE String(_)
String(n) ==
    LET digit(d) == <<"0", "1", "2", "3", "4", "5", "6", "7", "8", "9">>[d + 1]
    IN IF n < 10 THEN <<digit(n)>> ELSE String(n \div 10) \o <<digit(n % 10)>>

\* /^(page\s?)?\d+(\s?of\s?\d+)?$/i.test(str)
isPageNumber(str) ==
    LET skipSpace(s) == IF s # <<>> /\ IsSpace(Head(s)) THEN Tail(s) ELSE s
        digitsEnd(s) == IF \E i \in 1..Len(s) : ~IsDigit(s[i])
                        THEN (CHOOSE i \in 1..Len(s) :
                                 ~IsDigit(s[i]) /\ \A j \in 1..(i - 1) : IsDigit(s[j])) - 1
                        ELSE Len(s)
        a == IF StartsWithCI(str, <<"p", "a", "g", "e">>)
             THEN skipSpace(SubSeq(str, 5, Len(str))) ELSE str
        b == skipSpace(SubSeq(a, digitsEnd(a) + 1, Len(a)))
        c == skipSpace(SubSeq(b, 3, Len(b)))
    IN /\ digitsEnd(a) >= 1
       /\ \/ digitsEnd(a) = Len(a)
          \/ /\ StartsWithCI(b, <<"o", "f">>)
             /\ c # <<>>
             /\ digitsEnd(c) = Len(c)

\* removePageArtifacts with both line tests applied to every line of the page
removePageArtifacts_TestsEveryLine(lines, pageNum) ==
    IF Len(lines) < 3 THEN lines
    ELSE SelectSeq(lines, LAMBDA l : ~(isPageNumber(Trim(l)) \/ Trim(l) = String(pageNum)))

removePageArtifacts(lines, pageNum) ==
    IF Len(lines) < 3 THEN lines
    ELSE LET firstLine == Trim(lines[1])
             shifted == IF isPageNumber(firstLine) \/ firstLine = String(pageNum)
                        THEN Tail(lines) ELSE lines
             last == Trim(shifted[Len(shifted)])
         IN IF Len(shifted) > 0 /\ (isPageNumber(last) \/ last = String(pageNum))
            THEN SubSeq(shifted, 1, Len(shifted) - 1)
            ELSE shifted

\* lines.join(' ')
RECURSIVE JoinLines(_)
JoinLines(lines) ==
    IF lines = <<>> THEN <<>>
    ELSE IF Len(lines) = 1 THEN lines[1]
    ELSE lines[1] \o <<" ">> \o JoinLines(Tail(lines))

\* text.replace(/(\w+)-\s*[\r\n]+\s*(\w+)/g, '$1$2')
RECURSIVE Dehyphenate(_)
Dehyphenate(s) ==
    LET wordAfter(k) == {m \in (k + 2)..Len(s) :
                            /\ IsWordChar(s[m])
                            /\ \A j \in (k + 1)..(m - 1) : IsSpace(s[j])
                            /\ \E j \in (k + 1)..(m - 1) : s[j] \in {NL, "\r"}}
        hyphens == {k \in 2..Len(s) :
                       s[k] = "-" /\ IsWordChar(s[k - 1]) /\ wordAfter(k) # {}}
    IN IF hyphens = {} THEN s
       ELSE LET k == CHOOSE h \in hyphens : \A g \in hyphens : h <= g
                m == CHOOSE w \in wordAfter(k) : TRUE
                e == CHOOSE x \in m..Len(s) :
                         /\ \A j \in m..x : IsWordChar(s[j])
                         /\ x = Len(s) \/ ~IsWordChar(s[x + 1])
            IN SubSeq(s, 1, k - 1) \o SubSeq(s, m, e)
                   \o Dehyphenate(SubSeq(s, e + 1, Len(s)))

\* text.replace(/[ \t]+/g, ' ')
RECURSIVE CollapseBlanks(_)
CollapseBlanks(s) ==
    IF s = <<>> THEN <<>>
    ELSE IF Head(s) \in {" ", "\t"}
    THEN IF Len(s) >= 2 /\ s[2] \in {" ", "\t"} THEN CollapseBlanks(Tail(s))
         ELSE <<" ">> \o CollapseBlanks(Tail(s))
    ELSE <<Head(s)>> \o CollapseBlanks(Tail(s))

\* text.replace(/\n{3,}/g, '\n\n')
RECURSIVE CollapseNewlines(_)
CollapseNewlines(s) ==
    IF s = <<>> THEN <<>>
    ELSE IF Len(s) >= 3 /\ s[1] = NL /\ s[2] = NL /\ s[3] = NL
    THEN CollapseNewlines(Tail(s))
    ELSE <<Head(s)>> \o CollapseNewlines(Tail(s))

postProcessCleaner(txt) == Trim(CollapseNewlines(CollapseBlanks(Dehyphenate(txt))))

\* the promise of extractTextFromPdf: pending at pc, resolved or rejected
PdfPending == [pc |-> "call", status |-> "pending", message |-> "", text |-> Undefined,
               fileRead |-> FALSE, documentLoads |-> 0, pagesRead |-> <<>>,
               totalPages |-> 0, pageNum |-> 0, fullText |-> <<>>, failedAt |-> "none"]

\* the catch block with the partial text handed back instead of an error
PdfCatch_ResolvesPartialText(r, step) ==
    [r EXCEPT !.pc = "done", !.status = "resolved",
              !.text = postProcessCleaner(r.fullText), !.failedAt = step]

\* catch (error) { throw new Error("Failed to parse PDF. ...") }
PdfCatch(r, step) ==
    [r EXCEPT !.pc = "done", !.status = "rejected", !.message = STR_FailedToParse,
              !.failedAt = step]

\* pageNum++ and the loop test pageNum <= totalPages
PdfLoop(r, n) ==
    IF n <= r.totalPages THEN [r EXCEPT !.pc = "getPage", !.pageNum = n]
    ELSE [r EXCEPT !.pc = "return", !.pageNum = n]

\* ------------------------------------------------------- text cleaner

COMMON_WORDS ==
    {<<"t", "h", "e">>, <<"a">>, <<"a", "n">>, <<"o", "f">>, <<"t", "o">>, <<"i", "n">>,
     <<"f", "o", "r">>, <<"o", "n">>, <<"w", "i", "t", "h">>, <<"a", "t">>, <<"b", "y">>,
     <<"f", "r", "o", "m">>, <<"a", "s">>, <<"i", "n", "t", "o">>,
     <<"t", "h", "r", "o", "u", "g", "h">>, <<"a", "f", "t", "e", "r">>,
     <<"o", "v", "e", "r">>, <<"b", "e", "t", "w", "e", "e", "n">>,
     <<"u", "n", "d", "e", "r">>, <<"d", "u", "r", "i", "n", "g">>, <<"h", "e">>,
     <<"s", "h", "e">>, <<"i", "t">>, <<"t", "h", "e", "y">>, <<"w", "e">>, <<"i">>,
     <<"y", "o", "u">>, <<"h", "i", "s">>, <<"h", "e", "r">>, <<"i", "t", "s">>,
     <<"t", "h", "e", "i", "r">>, <<"o", "u", "r">>, <<"m", "y">>, <<"y", "o", "u", "r">>,
     <<"i", "s">>, <<"a", "r", "e">>, <<"w", "a", "s">>, <<"w", "e", "r", "e">>, <<"b", "e">>,
     <<"b", "e", "e", "n">>, <<"b", "e", "i", "n", "g">>, <<"h", "a", "v", "e">>,
     <<"h", "a", "s">>, <<"h", "a", "d">>, <<"d", "o">>, <<"d", "o", "e", "s">>,
     <<"d", "i", "d">>, <<"w", "i", "l", "l">>, <<"w", "o", "u", "l", "d">>,
     <<"c", "o", "u", "l", "d">>, <<"s", "h", "o", "u", "l", "d">>, <<"m", "a", "y">>,
     <<"m", "i", "g", "h", "t">>, <<"m", "u", "s", "t">>, <<"c", "a", "n">>,
     <<"s", "a", "i", "d">>, <<"s", "a", "y", "s">>, <<"t", "o", "l", "d">>,
     <<"a", "s", "k", "e", "d">>, <<"w", "e", "n", "t">>, <<"c", "a", "m", "e">>,
     <<"s", "a", "w">>, <<"k", "n", "e", "w">>, <<"t", "h", "o", "u", "g", "h", "t">>,
     <<"m", "a", "d", "e">>, <<"f", "o", "u", "n", "d">>, <<"g", "a", "v", "e">>,
     <<"t", "o", "o", "k">>, <<"l", "o", "o", "k", "e", "d">>,
     <<"s", "e", "e", "m", "e", "d">>, <<"f", "e", "l", "t">>, <<"l", "e", "f", "t">>,
     <<"t", "u", "r", "n", "e", "d">>, <<"a", "r", "r", "i", "v", "e", "d">>,
     <<"d", "e", "c", "i", "d", "e", "d">>, <<"w", "a", "n", "t", "e", "d">>,
     <<"n", "e", "e", "d", "e", "d">>, <<"b", "e", "g", "a", "n">>,
     <<"s", "t", "a", "r", "t", "e", "d">>, <<"e", "n", "t", "e", "r", "e", "d">>,
     <<"w", "a", "l", "k", "e", "d">>, <<"s", "t", "o", "o", "d">>, <<"s", "a", "t">>,
     <<"l", "a", "y">>, <<"l", "i", "v", "e", "d">>, <<"d", "i", "e", "d">>,
     <<"l", "o", "v", "e", "d">>, <<"h", "a", "t", "e", "d">>, <<"o", "l", "d">>,
     <<"n", "e", "w">>, <<"f", "i", "r", "s", "t">>, <<"l", "a", "s", "t">>,
     <<"l", "o", "n", "g">>, <<"g", "r", "e", "a", "t">>, <<"l", "i", "t", "t", "l", "e">>,
     <<"o", "w", "n">>, <<"o", "t", "h", "e", "r">>, <<"g", "o", "o", "d">>, <<"b", "a", "d">>,
     <<"y", "o", "u", "n", "g">>, <<"r", "i", "g", "h", "t">>, <<"b", "e", "s", "t">>,
     <<"n", "e", "x", "t">>, <<"s", "a", "m", "e">>, <<"f", "e", "w">>, <<"m", "o", "r", "e">>,
     <<"m", "o", "s", "t">>, <<"s", "m", "a", "l", "l">>, <<"l", "a", "r", "g", "e">>,
     <<"e", "n", "t", "i", "r", "e">>, <<"w", "h", "o", "l", "e">>,
     <<"e", "n", "o", "r", "m", "o", "u", "s">>,
     <<"a", "b", "a", "n", "d", "o", "n", "e", "d">>, <<"a", "n", "c", "i", "e", "n", "t">>,
     <<"r", "u", "i", "n", "e", "d">>, <<"m", "a", "n">>, <<"m", "e", "n">>,
     <<"w", "o", "m", "a", "n">>, <<"w", "o", "m", "e", "n">>, <<"b", "o", "y">>,
     <<"g", "i", "r", "l">>, <<"c", "h", "i", "l", "d">>,
     <<"c", "h", "i", "l", "d", "r", "e", "n">>, <<"p", "e", "o", "p", "l", "e">>,
     <<"p", "e", "r", "s", "o", "n">>, <<"n", "a", "m", "e">>, <<"t", "i", "m", "e">>,
     <<"y", "e", "a", "r">>, <<"d", "a", "y">>, <<"n", "i", "g", "h", "t">>, <<"w", "a", "y">>,
     <<"t", "h", "i", "n", "g">>, <<"p", "l", "a", "c", "e">>, <<"w", "o", "r", "l", "d">>,
     <<"l", "i", "f", "e">>, <<"h", "a", "n", "d">>, <<"p", "a", "r", "t">>,
     <<"h", "o", "u", "s", "e">>, <<"h", "o", "m", "e">>, <<"r", "o", "o", "m">>,
     <<"d", "o", "o", "r">>, <<"w", "i", "n", "d", "o", "w">>,
     <<"c", "h", "u", "r", "c", "h">>, <<"r", "o", "o", "f">>, <<"s", "p", "o", "t">>,
     <<"t", "r", "e", "e">>, <<"s", "y", "c", "a", "m", "o", "r", "e">>,
     <<"s", "a", "c", "r", "i", "s", "t", "y">>, <<"h", "e", "r", "d">>,
     <<"s", "h", "e", "e", "p">>, <<"f", "l", "o", "c", "k">>, <<"g", "a", "t", "e">>,
     <<"p", "l", "a", "n", "k", "s">>, <<"w", "o", "l", "v", "e", "s">>,
     <<"r", "e", "g", "i", "o", "n">>, <<"a", "n", "i", "m", "a", "l">>,
     <<"c", "h", "a", "p", "t", "e", "r">>, <<"p", "r", "o", "l", "o", "g", "u", "e">>,
     <<"e", "p", "i", "l", "o", "g", "u", "e">>, <<"b", "o", "o", "k">>, <<"o", "n", "e">>,
     <<"t", "w", "o">>, <<"t", "h", "r", "e", "e">>, <<"f", "o", "u", "r">>,
     <<"f", "i", "v", "e">>, <<"d", "u", "s", "k">>, <<"f", "a", "l", "l", "i", "n", "g">>,
     <<"f", "a", "l", "l", "e", "n">>, <<"o", "n", "c", "e">>, <<"u", "p", "o", "n">>,
     <<"t", "h", "e", "r", "e">>, <<"h", "e", "r", "e">>, <<"w", "h", "e", "r", "e">>,
     <<"w", "h", "e", "n">>, <<"w", "h", "a", "t">>, <<"w", "h", "o">>, <<"h", "o", "w">>,
     <<"w", "h", "y">>, <<"t", "h", "a", "t">>, <<"t", "h", "i", "s">>, <<"t", "h", "e", "n">>,
     <<"t", "h", "a", "n">>, <<"s", "o", "m", "e">>, <<"o", "n", "l", "y">>,
     <<"j", "u", "s", "t">>, <<"a", "l", "s", "o">>, <<"v", "e", "r", "y">>,
     <<"e", "v", "e", "n">>, <<"s", "t", "i", "l", "l">>,
     <<"a", "l", "r", "e", "a", "d", "y">>, <<"a", "l", "w", "a", "y", "s">>,
     <<"n", "e", "v", "e", "r">>, <<"e", "v", "e", "r">>, <<"n", "o", "w">>,
     <<"o", "f", "t", "e", "n">>, <<"a", "n", "d">>, <<"b", "u", "t">>, <<"o", "r">>,
     <<"i", "f">>, <<"s", "o">>, <<"y", "e", "t">>, <<"b", "e", "c", "a", "u", "s", "e">>,
     <<"a", "l", "t", "h", "o", "u", "g", "h">>, <<"w", "h", "i", "l", "e">>,
     <<"u", "n", "t", "i", "l">>, <<"b", "e", "f", "o", "r", "e">>,
     <<"s", "i", "n", "c", "e">>, <<"u", "n", "l", "e", "s", "s">>, <<"a", "l", "l">>,
     <<"e", "a", "c", "h">>, <<"e", "v", "e", "r", "y">>, <<"b", "o", "t", "h">>,
     <<"m", "a", "n", "y">>, <<"m", "u", "c", "h">>, <<"s", "u", "c", "h">>, <<"n", "o">>,
     <<"n", "o", "t">>, <<"a", "n", "y">>, <<"a", "b", "o", "u", "t">>, <<"l", "i", "k", "e">>,
     <<"o", "u", "t">>, <<"u", "p">>, <<"d", "o", "w", "n">>, <<"b", "a", "c", "k">>,
     <<"a", "w", "a", "y">>, <<"o", "f", "f">>, <<"w", "e", "l", "l">>, <<"t", "o", "o">>,
     <<"s">>, <<"t">>, <<"d">>, <<"l", "l">>, <<"v", "e">>, <<"r", "e">>, <<"m">>}

LONG_WORDS ==
    {<<"s", "y", "c", "a", "m", "o", "r", "e">>, <<"s", "a", "c", "r", "i", "s", "t", "y">>,
     <<"a", "b", "a", "n", "d", "o", "n", "e", "d">>,
     <<"e", "n", "o", "r", "m", "o", "u", "s">>, <<"s", "a", "n", "t", "i", "a", "g", "o">>,
     <<"s", "e", "a", "r", "c", "h", "i", "n", "g">>,
     <<"w", "a", "n", "d", "e", "r", "i", "n", "g">>,
     <<"s", "p", "e", "n", "d", "i", "n", "g">>, <<"p", "r", "e", "v", "e", "n", "t">>,
     <<"d", "u", "r", "i", "n", "g">>, <<"f", "a", "l", "l", "i", "n", "g">>,
     <<"t", "h", "r", "o", "u", "g", "h">>, <<"a", "r", "r", "i", "v", "e", "d">>,
     <<"d", "e", "c", "i", "d", "e", "d">>, <<"s", "t", "r", "a", "y", "e", "d">>,
     <<"e", "n", "t", "i", "r", "e">>, <<"c", "h", "a", "p", "t", "e", "r">>,
     <<"p", "r", "o", "l", "o", "g", "u", "e">>, <<"e", "p", "i", "l", "o", "g", "u", "e">>,
     <<"b", "e", "t", "w", "e", "e", "n">>, <<"b", "e", "c", "a", "u", "s", "e">>,
     <<"a", "l", "t", "h", "o", "u", "g", "h">>, <<"c", "h", "i", "l", "d", "r", "e", "n">>,
     <<"t", "h", "o", "u", "g", "h", "t">>, <<"m", "o", "r", "n", "i", "n", "g">>,
     <<"e", "v", "e", "n", "i", "n", "g">>, <<"a", "f", "t", "e", "r", "n", "o", "o", "n">>,
     <<"n", "i", "g", "h", "t">>}

InDictionary(w) == w \in COMMON_WORDS \/ w \in LONG_WORDS

Upper(c) == IF IsLower(c) THEN UpperLetters[CHOOSE i \in 1..26 : LowerLetters[i] = c] ELSE c

\* the character classes [A-Z], \w, \s and \d of the cleaner's patterns
InClass(c, class) ==
    CASE class = "upper" -> IsUpper(c)
      [] class = "word" -> IsWordChar(c)
      [] class = "space" -> IsSpace(c)
      [] class = "digit" -> IsDigit(c)

\* last index of the greedy run of the class that starts at index i of s
\* (i - 1 when the run is empty)
RunEnd(s, i, class) ==
    LET stops == {j \in i..Len(s) : ~InClass(s[j], class)}
    IN IF stops = {} THEN Max(Len(s), i - 1)
       ELSE (CHOOSE j \in stops : \A k \in stops : j <= k) - 1

\* \b in front of index i, and \b behind index e, of a word character
WordStart(s, i) == i = 1 \/ ~IsWordChar(s[i - 1])
WordEnd(s, e) == e = Len(s) \/ ~IsWordChar(s[e + 1])

\* .replace(/(\w)\s+['']([SMDTV])\b/gi, "$1'$2"), from index i on
RECURSIVE FixPossessives(_, _)
FixPossessives(s, i) ==
    IF i > Len(s) THEN <<>>
    ELSE LET j == RunEnd(s, i + 1, "space")
         IN IF /\ IsWordChar(s[i])
               /\ j >= i + 1
               /\ j + 2 <= Len(s)
               /\ s[j + 1] = "'"
               /\ Lower(s[j + 2]) \in {"s", "m", "d", "t", "v"}
               /\ WordEnd(s, j + 2)
            THEN <<s[i], "'", s[j + 2]>> \o FixPossessives(s, j + 3)
            ELSE <<s[i]>> \o FixPossessives(s, i + 1)

\* .replace(/(\w)\s+[''](\s*)([A-Z])\b/gi, "$1'$3"), from index i on
RECURSIVE FixContractions(_, _)
FixContractions(s, i) ==
    IF i > Len(s) THEN <<>>
    ELSE LET j == RunEnd(s, i + 1, "space")
             k == RunEnd(s, j + 2, "space")
         IN IF /\ IsWordChar(s[i])
               /\ j >= i + 1
               /\ j + 1 <= Len(s)
               /\ s[j + 1] = "'"
               /\ k + 1 <= Len(s)
               /\ IsLetter(s[k + 1])
               /\ WordEnd(s, k + 1)
            THEN <<s[i], "'", s[k + 1]>> \o FixContractions(s, k + 2)
            ELSE <<s[i]>> \o FixContractions(s, i + 1)

fixPossessivesAndContractions(txt) == FixContractions(FixPossessives(txt, 1), 1)

\* greedySplit: the longest known word at the front whose remainder splits
\* well (has a space, is a known word, or is at most 3 long)
RECURSIVE greedySplit(_)
greedySplit(txt) ==
    IF Len(txt) <= 2 THEN txt
    ELSE LET rest(len) == greedySplit(SubSeq(txt, len + 1, Len(txt)))
             accepted == {len \in 1..Min(Len(txt), 12) :
                             /\ InDictionary(SubSeq(txt, 1, len))
                             /\ \/ len = Len(txt)
                                \/ \E p \in 1..Len(rest(len)) : rest(len)[p] = " "
                                \/ InDictionary(rest(len))
                                \/ Len(rest(len)) <= 3}
         IN IF accepted = {} THEN txt
            ELSE LET len == CHOOSE l \in accepted : \A m \in accepted : m <= l
                 IN IF len = Len(txt) THEN SubSeq(txt, 1, len)
                    ELSE SubSeq(txt, 1, len) \o <<" ">> \o rest(len)

\* text.replace(/\b[A-Z]{6,}\b/g, ...), from index i on: a run that splits
\* is replaced by its words in title case
RECURSIVE splitJoinedUppercaseWords(_, _)
splitJoinedUppercaseWords(s, i) ==
    IF i > Len(s) THEN <<>>
    ELSE LET e == RunEnd(s, i, "upper")
             match == SubSeq(s, i, e)
             result == greedySplit(ToLowerCase(match))
             titled == [p \in 1..Len(result) |->
                           IF p = 1 \/ result[p - 1] = " " THEN Upper(result[p])
                           ELSE result[p]]
         IN IF WordStart(s, i) /\ e - i + 1 >= 6 /\ WordEnd(s, e)
            THEN (IF \E p \in 1..Len(result) : result[p] = " " THEN titled ELSE match)
                     \o splitJoinedUppercaseWords(s, e + 1)
            ELSE <<s[i]>> \o splitJoinedUppercaseWords(s, i + 1)

\* .replace(/\b([A-Z])\s+([A-Z]{2,})\b/g, '$1$2'), from index i on
RECURSIVE JoinCapital(_, _)
JoinCapital(s, i) ==
    IF i > Len(s) THEN <<>>
    ELSE LET j == RunEnd(s, i + 1, "space")
             e == RunEnd(s, j + 1, "upper")
         IN IF /\ WordStart(s, i)
               /\ IsUpper(s[i])
               /\ j >= i + 1
               /\ e - j >= 2
               /\ WordEnd(s, e)
            THEN <<s[i]>> \o SubSeq(s, j + 1, e) \o JoinCapital(s, e + 1)
            ELSE <<s[i]>> \o JoinCapital(s, i + 1)

\* .replace(/\b(\w{1,3})\s+(\w{2,})\b/g, ...), from index i on: the pair is
\* joined when the joined word is in the dictionary and kept otherwise
RECURSIVE JoinFragments(_, _)
JoinFragments(s, i) ==
    IF i > Len(s) THEN <<>>
    ELSE LET a == RunEnd(s, i, "word")
             j == RunEnd(s, a + 1, "space")
             e == RunEnd(s, j + 1, "word")
             combined == SubSeq(s, i, a) \o SubSeq(s, j + 1, e)
         IN IF /\ WordStart(s, i)
               /\ a >= i
               /\ a - i + 1 <= 3
               /\ j >= a + 1
               /\ e - j >= 2
            THEN (IF InDictionary(ToLowerCase(combined)) THEN combined
                  ELSE SubSeq(s, i, e)) \o JoinFragments(s, e + 1)
            ELSE <<s[i]>> \o JoinFragments(s, i + 1)

fixBrokenWords(txt) == JoinFragments(JoinCapital(txt, 1), 1)

HeadingWords ==
    {<<"c", "h", "a", "p", "t", "e", "r">>, <<"p", "a", "r", "t">>,
     <<"p", "r", "o", "l", "o", "g", "u", "e">>, <<"e", "p", "i", "l", "o", "g", "u", "e">>}

\* .replace(/\b(CHAPTER|PART|PROLOGUE|EPILOGUE)\s*(\d*|\w*)/gi, ...), from
\* index i on: \d* is the first alternative and matches the empty string,
\* so num is the digits that follow the white space, if any
RECURSIVE normalizeStructure(_, _)
normalizeStructure(s, i) ==
    IF i > Len(s) THEN <<>>
    ELSE LET types == {w \in HeadingWords : StartsWithCI(SubSeq(s, i, Len(s)), w)}
             type == CHOOSE w \in types : TRUE
             j == RunEnd(s, i + Len(type), "space")
             d == RunEnd(s, j + 1, "digit")
             num == SubSeq(s, j + 1, d)
             normalizedType == <<Upper(type[1])>> \o Tail(type)
         IN IF WordStart(s, i) /\ types # {}
            THEN normalizedType \o (IF num # <<>> THEN <<" ">> \o num ELSE <<>>)
                     \o normalizeStructure(s, d + 1)
            ELSE <<s[i]>> \o normalizeStructure(s, i + 1)

cleanExtractedText(txt) ==
    CollapseBlanks(normalizeStructure(fixBrokenWords(splitJoinedUppercaseWords(
        fixPossessivesAndContractions(txt), 1)), 1))

\* --------------------------------------------------- the local database
\* a book record of db.books; NoBook stands for null / no record
NoBook == [id |-> 0, totalChunks |-> 0, processedCharCount |-> 0,
           rawContent |-> <<>>, lastReadIndex |-> 0]

\* db.chunks.where('bookId').equals(id)
ChunksOf(chunks, id) == {c \in chunks : c.bookId = id}

\* the candidates for sortedChunks[sortedChunks.length - 1]: the chunks of
\* the book with the highest index (several if the index is duplicated; the
\* order among them is the order of their random ids)
LastChunks(chunks, id) ==
    {c \in ChunksOf(chunks, id) : \A d \in ChunksOf(chunks, id) : d.index <= c.index}

\* chunks as returned by semanticChunking, given their ids (uuidv4)
WithIds(chunkSeq, firstId) ==
    {[id |-> firstId + (i - 1),
      bookId |-> chunkSeq[i].bookId,
      index |-> chunkSeq[i].index,
      text |-> chunkSeq[i].text,
      chapterTitle |-> chunkSeq[i].chapterTitle,
      contextLabel |-> chunkSeq[i].contextLabel,
      tags |-> chunkSeq[i].tags] : i \in 1..Len(chunkSeq)}

\* ReaderView: (book.processedCharCount || 0) < (book.rawContent?.length || 0)
hasMoreContent(book) == book.processedCharCount < Len(book.rawContent)

\* handleLoadMore: the three guards before the try block
LoadMoreProceeds(active, book) ==
    /\ ~active
    /\ book # NoBook
    /\ Len(book.rawContent) > 0
    /\ ~(book.processedCharCount >= Len(book.rawContent))

\* a faulty variant: the chunks are added outside the transaction and the
\* update of the book record is lost
LoadMoreTransaction_ChunksOnly(books, chunks, load) ==
    [chunks |-> chunks \cup load.newChunks, books |-> books]

\* a faulty variant: the update is applied to every record of db.books
LoadMoreTransaction_UpdatesEveryBook(books, chunks, load) ==
    [chunks |-> chunks \cup load.newChunks,
     books |-> [b \in DOMAIN books |->
                  IF books[b] = NoBook THEN NoBook
                  ELSE [books[b] EXCEPT !.totalChunks = load.book.totalChunks + Cardinality(load.newChunks),
                                        !.processedCharCount = load.nextBatchEnd]]]

\* the transaction of handleLoadMore: bulkAdd and books.update commit
\* together; update of a missing record changes nothing
LoadMoreTransaction(books, chunks, load) ==
    [chunks |-> chunks \cup load.newChunks,
     books |-> IF books[load.book.id] = NoBook THEN books
               ELSE [books EXCEPT ![load.book.id] =
                        [@ EXCEPT !.totalChunks = load.book.totalChunks + Cardinality(load.newChunks),
                                  !.processedCharCount = load.nextBatchEnd]]]

\* ------------------------------------------------------------- variables
VARIABLES
    text,          \* findSafeBatchEnd: the text argument / the raw text walked
    targetLimit,   \* findSafeBatchEnd: the targetLimit argument
    minChunkSize,  \* findSafeBatchEnd: the minChunkSize argument
    offset,        \* the offset returned by the last call, -1 before a call
    walkP,         \* the walk's processedCharCount
    walkSteps,     \* number of steps the walk has taken
    scArgs,        \* semanticChunking: the arguments and the service's behaviour
    scResult,      \* semanticChunking: how the promise settled
    apiKey,        \* process.env.API_KEY is set
    dbBooks,       \* db.books: book id -> record (NoBook: no record)
    dbChunks,      \* db.chunks: the set of persisted chunk rows
    appState,      \* App: appState
    currentBook,   \* App: currentBook (a snapshot of a record, or NoBook)
    processingState, \* App: processingState.active
    upload,        \* the handleFileUpload or handleUrlSubmit invocation in flight
    loads,         \* the handleLoadMore invocations in flight, by slot
    rv,            \* ReaderView: mounted, activeIndex, isLoadingMore, prefetchTriggeredRef
    declined       \* the last step was a load-more request declined for lack of text

vars == <<text, targetLimit, minChunkSize, offset, walkP, walkSteps, scArgs, scResult,
          apiKey, dbBooks, dbChunks, appState, currentBook, processingState,
          upload, loads, rv, declined>>
appVars == <<apiKey, dbBooks, dbChunks, appState, currentBook, processingState,
             upload, loads, rv, declined>>
batchVars == <<text, targetLimit, minChunkSize, offset, walkP, walkSteps>>
chunkingVars == <<scArgs, scResult>>

NoResult == [status |-> "none", chunks |-> <<>>, called |-> FALSE]
NoArgs == [apiKey |-> TRUE, textSegment |-> <<>>, startIndex |-> 0,
           previousChapterContext |-> Undefined, response |-> Failure("throws")]

BatchIdle ==
    /\ text = <<>>
    /\ targetLimit = BATCH_SIZE
    /\ minChunkSize = DEFAULT_MIN_CHUNK
    /\ offset = -1
    /\ walkP = 0
    /\ walkSteps = 0

ChunkingIdle ==
    /\ scArgs = NoArgs
    /\ scResult = NoResult

IdleUpload == [pc |-> "idle", text |-> <<>>, firstBatchEnd |-> 0, bookId |-> 0, chunks |-> {}]
IdleLoad == [pc |-> "idle", source |-> "none", book |-> NoBook, nextBatchEnd |-> 0,
             textBatch |-> <<>>, context |-> Undefined, nextIndex |-> 0, newChunks |-> {}]
Unmounted == [mounted |-> FALSE, activeIndex |-> 0, isLoadingMore |-> FALSE,
              prefetchTriggeredRef |-> 0]

\* the application right after start: empty library, nothing in flight
AppStart ==
    /\ dbBooks = [b \in 1..MaxBooks |-> NoBook]
    /\ dbChunks = {}
    /\ appState = "LIBRARY"
    /\ currentBook = NoBook
    /\ processingState = [active |-> FALSE]
    /\ upload = IdleUpload
    /\ loads = [i \in 1..MaxLoads |-> IdleLoad]
    /\ rv = Unmounted
    /\ declined = FALSE

AppIdle == apiKey = TRUE /\ AppStart

\* ------------------------------------------- findSafeBatchEnd, one call
InitBatch ==
    /\ text \in SeqsUpTo(BatchChars, MaxTextLen)
    /\ targetLimit \in 1..MaxLimit
    /\ minChunkSize \in 0..(MaxLimit + 1)
    /\ offset = -1
    /\ walkP = 0
    /\ walkSteps = 0
    /\ ChunkingIdle
    /\ AppIdle

CallFindSafeBatchEnd ==
    /\ offset = -1
    /\ offset' = findSafeBatchEnd(text, targetLimit, minChunkSize)
    /\ UNCHANGED <<text, targetLimit, minChunkSize, walkP, walkSteps>>
    /\ UNCHANGED chunkingVars
    /\ UNCHANGED appVars

NextBatch == CallFindSafeBatchEnd

SpecBatch == InitBatch /\ [][NextBatch]_vars

\* C5: for every text, targetLimit L >= 1 and minChunkSize m with
\* 0 <= m <= L, the returned offset o satisfies 0 < o <= min(L, len(T))
\* when len(T) > L, and o = len(T) otherwise.
C5_OffsetInRange ==
    (offset # -1 /\ targetLimit >= 1 /\ minChunkSize >= 0 /\ minChunkSize <= targetLimit) =>
        IF Len(text) > targetLimit
        THEN 0 < offset /\ offset <= Min(targetLimit, Len(text))
        ELSE offset = Len(text)

\* a text longer than the limit was cut at a break inside the lookback window
C5_Witness ==
    /\ offset # -1
    /\ minChunkSize <= targetLimit
    /\ Len(text) > targetLimit
    /\ offset < targetLimit

\* the characters after which a batch may end: newline and . ! ?
BreakChars == {NL, ".", "!", "?"}

\* the batch text[0, offset) ends right after a newline or a sentence terminal
EndsAtBreak == offset >= 1 /\ text[offset] \in BreakChars

\* the positions (1-based) of the lookback window before the limit
LookbackPositions ==
    {i \in 1..Len(text) :
        /\ i <= targetLimit
        /\ i > targetLimit - Min(LOOKBACK_CAP, targetLimit - minChunkSize)}

\* C14 (as stated): a batch ends at the end of the text or right after a
\* paragraph break, a newline or a sentence terminal; it ends in the middle
\* of a sentence only when the remaining text is shorter than minChunkSize.
C14_EndsAtBoundary ==
    (offset # -1 /\ minChunkSize <= targetLimit) =>
        \/ offset = Len(text)
        \/ EndsAtBreak
        \/ Len(text) < minChunkSize
        \/ Len(text) - offset < minChunkSize

\* C14 (amended): a batch ends at the end of the text, or right after a
\* newline or a sentence terminal of the lookback window; it is cut at the
\* limit, possibly in the middle of a sentence, exactly when the text is
\* longer than the limit and the lookback window holds no such character.
C14_EndsAtBoundaryOrNoBreakInWindow ==
    offset # -1 =>
        IF Len(text) <= targetLimit THEN offset = Len(text)
        ELSE IF \E i \in LookbackPositions : text[i] \in BreakChars
             THEN EndsAtBreak /\ offset \in LookbackPositions
             ELSE offset = targetLimit

\* a hard cut in the middle of a sentence with plenty of text remaining
C14_Witness ==
    /\ offset # -1
    /\ minChunkSize >= 1
    /\ minChunkSize < targetLimit
    /\ offset = targetLimit
    /\ ~EndsAtBreak
    /\ Len(text) - offset >= minChunkSize

\* C21: for a text longer than the limit only the lookback window, the last
\* min(cap, targetLimit - minChunkSize) characters before the limit, is
\* searched; the offset is just after the last paragraph break of the
\* window, else just after its last newline, else just after its last
\* sentence terminal, else the limit itself.
C21_CutByPriority ==
    (offset # -1 /\ Len(text) > targetLimit) =>
        LET last(S) == CHOOSE i \in S : \A j \in S : j <= i
            paragraphBreaks == {i \in LookbackPositions :
                                   /\ i + 1 \in LookbackPositions
                                   /\ text[i] = NL
                                   /\ text[i + 1] = NL}
            newlines == {i \in LookbackPositions : text[i] = NL}
            terminals == {i \in LookbackPositions : text[i] \in {".", "!", "?"}}
        IN IF paragraphBreaks # {} THEN offset = last(paragraphBreaks) + 1
           ELSE IF newlines # {} THEN offset = last(newlines)
           ELSE IF terminals # {} THEN offset = last(terminals)
           ELSE offset = targetLimit

\* the cut is made after a paragraph break although the window holds a
\* later single newline and a later sentence terminal
C21_Witness ==
    /\ offset # -1
    /\ Len(text) > targetLimit
    /\ offset >= 2
    /\ offset + 2 <= targetLimit
    /\ text[offset - 1] = NL
    /\ text[offset] = NL
    /\ \E i, j \in (offset + 1)..targetLimit : text[i] = NL /\ IsSentenceEnd(text[j])

\* C26: for a text longer than the limit, with minChunkSize not above the
\* limit, the offset is at least minChunkSize and lies less than the
\* lookback cap below the limit.
C26_NoSliver ==
    (offset # -1 /\ Len(text) > targetLimit /\ targetLimit >= minChunkSize) =>
        /\ offset >= minChunkSize
        /\ offset > targetLimit - LOOKBACK_CAP

\* the cut is made after the first character of a window bounded by the
\* cap, and an earlier break, below the window, is passed over
C26_Witness ==
    /\ offset # -1
    /\ Len(text) > targetLimit
    /\ targetLimit - LOOKBACK_CAP > minChunkSize
    /\ minChunkSize >= 1
    /\ offset = targetLimit - LOOKBACK_CAP + 1
    /\ \E i \in 1..minChunkSize : text[i] \in BreakChars

\* ------------------------ walking a raw text batch by batch (upload, load more)
InitWalk ==
    /\ text \in SeqsUpTo(BatchChars, MaxRawLen)
    /\ targetLimit = BATCH_SIZE
    /\ minChunkSize = DEFAULT_MIN_CHUNK
    /\ offset = -1
    /\ walkP = 0
    /\ walkSteps = 0
    /\ ChunkingIdle
    /\ AppIdle

\* p := p + findSafeBatchEnd(raw.slice(p), BATCH_SIZE); a walk of a text of
\* n characters that advances at every step takes at most n steps
WalkStep ==
    /\ walkP < Len(text)
    /\ walkSteps <= Len(text)
    /\ offset' = findSafeBatchEnd(SliceFrom(text, walkP), BATCH_SIZE, DEFAULT_MIN_CHUNK)
    /\ walkP' = walkP + offset'
    /\ walkSteps' = walkSteps + 1
    /\ UNCHANGED <<text, targetLimit, minChunkSize>>
    /\ UNCHANGED chunkingVars
    /\ UNCHANGED appVars

NextWalk == WalkStep

SpecWalk == InitWalk /\ [][NextWalk]_vars /\ WF_vars(WalkStep)

\* C6: every step of the walk strictly increases p without passing the end
\* of the raw text, and the walk reaches p = len(raw).
C6_WalkAdvancesAndEnds ==
    /\ [][walkP' > walkP /\ walkP' <= Len(text)]_vars
    /\ <>(walkP = Len(text))

\* a walk that took more than one batch to reach the end of its raw text
C6_Witness ==
    /\ walkSteps >= 2
    /\ walkP = Len(text)

\* ------------------------------------------- semanticChunking, one call
WindowChars == {"a", " ", NL, "."}
Contexts == {Undefined, STR_UnknownChapter, STR_Chapter3}
StartIndexes == {0, 3}
ItemTitles == {Undefined, STR_UnknownChapter, STR_Chapter, STR_Chapter2}
Item(t, title) == [text |-> t, chapterTitle |-> title, contextLabel |-> <<"s">>]
ItemSet == {Item(<<"t">>, t) : t \in ItemTitles} \cup {Item(Undefined, STR_Chapter2)}

InitChunking ==
    /\ BatchIdle
    /\ AppIdle
    /\ scResult = NoResult
    /\ \/ scArgs \in [apiKey : BOOLEAN,
                      textSegment : SeqsUpTo(WindowChars, MaxWindowLen),
                      startIndex : StartIndexes,
                      previousChapterContext : Contexts,
                      response : {Failure(k) : k \in FailureKinds}]
       \/ scArgs \in [apiKey : {TRUE},
                      textSegment : {<<"a">>},
                      startIndex : StartIndexes,
                      previousChapterContext : Contexts,
                      response : {Items(it) : it \in SeqsUpTo(ItemSet, MaxItems)}]

CallSemanticChunking ==
    /\ scResult = NoResult
    /\ scResult' = semanticChunking(scArgs.apiKey, scArgs.textSegment, 1, scArgs.startIndex,
                                    scArgs.previousChapterContext, scArgs.response)
    /\ UNCHANGED scArgs
    /\ UNCHANGED batchVars
    /\ UNCHANGED appVars

NextChunking == CallSemanticChunking

SpecChunking == InitChunking /\ [][NextChunking]_vars

\* C3: for every non-empty window the call resolves to a chunk list and
\* never rejects, however the service fails or is unreachable.
C3_NeverRejects ==
    (scResult # NoResult /\ Len(scArgs.textSegment) > 0) => scResult.status = "resolved"

\* the external call was made and failed (threw, no text, unparseable text)
CallFailed ==
    /\ scResult # NoResult
    /\ scResult.called
    /\ scArgs.response.kind \in {"throws", "noText", "unparseable"}

\* C4: when the external call fails on a window with non-whitespace text,
\* the result is exactly the fallback segmenter's result for the same
\* window, startIndex and context: non-empty, every chunk tagged fallback.
C4_FallbackOnFailure ==
    (CallFailed /\ Len(Trim(scArgs.textSegment)) > 0) =>
        /\ scResult.status = "resolved"
        /\ scResult.chunks = fallbackChunking(scArgs.textSegment, 1, scArgs.startIndex,
                                              scArgs.previousChapterContext)
        /\ Len(scResult.chunks) > 0
        /\ \A i \in 1..Len(scResult.chunks) : scResult.chunks[i].tags = <<"fallback">>

\* a failed call in the middle of a book, with a context, that the fallback
\* answered with more than one chunk
C4_Witness ==
    /\ CallFailed
    /\ scArgs.startIndex > 0
    /\ scArgs.previousChapterContext = STR_Chapter3
    /\ Len(scResult.chunks) > 1
    /\ scResult.chunks[1].tags = <<"fallback">>

\* C12: a call with an empty or whitespace-only window resolves to the empty
\* chunk list without calling the service and without an error, whether or
\* not the client can be built (API key set or not).
C12_EmptyWindowReturnsEmpty ==
    (scResult # NoResult /\ Len(Trim(scArgs.textSegment)) = 0) =>
        scResult = Resolved(<<>>, FALSE)

\* the primary path answered: the service returned segments and all mapped
PrimaryPath ==
    /\ scResult # NoResult
    /\ scResult.called
    /\ scArgs.response.kind = "items"
    /\ ~MapThrows(scArgs.response.items)

\* C10: in the primary path a segment with a missing or placeholder title
\* gets "Chapter 1" if startIndex = 0 and it is among the first five, else
\* the supplied context if there is one, else "Unknown Chapter"; a segment
\* with a real title keeps it.
C10_TitleResolution ==
    PrimaryPath =>
        \A i \in 1..Len(scResult.chunks) :
            LET supplied == scArgs.response.items[i].chapterTitle
                ctx == scArgs.previousChapterContext
            IN scResult.chunks[i].chapterTitle =
                 IF IsPlaceholderTitle(supplied)
                 THEN IF scArgs.startIndex = 0 /\ i - 1 < 5 THEN STR_Chapter1
                      ELSE IF Truthy(ctx) THEN ctx
                      ELSE STR_UnknownChapter
                 ELSE supplied

\* C22: in the chunk list of the primary path a chunk whose supplied title
\* is missing or a placeholder carries the chapter title of the chunk just
\* before it in the batch, whenever that chunk was supplied a real title.
C22_TitlePersistsWithinBatch ==
    PrimaryPath =>
        \A i \in 2..Len(scResult.chunks) :
            (/\ IsPlaceholderTitle(scArgs.response.items[i].chapterTitle)
             /\ ~IsPlaceholderTitle(scArgs.response.items[i - 1].chapterTitle)) =>
                scResult.chunks[i].chapterTitle = scResult.chunks[i - 1].chapterTitle

\* ------------------------------------------------------- the application
\* inputs: the files a user uploads and the answers of the service
UploadTexts ==
    {<<"a">>,
     <<"a", "a", ".", "a", "a", "a">>,
     <<"a", NL, NL, "a", ".", "a", "a", NL, NL, "a">>}
AppResponses ==
    {Failure("throws"),
     Items(<<>>),
     Items(<<Item(<<"t">>, Undefined), Item(<<"t">>, STR_Chapter2)>>)}

\* renderContent: the reader view is rendered only while nothing is being
\* processed, the application is READING and a book is current
Mounted(active, state, book) == ~active /\ state = "READING" /\ book # NoBook

\* the reader view after a render of App: a view that stays mounted keeps
\* its state, a view mounted anew starts from the book's lastReadIndex
Render(view, active, state, book) ==
    IF Mounted(active, state, book)
    THEN IF view.mounted THEN view
         ELSE [mounted |-> TRUE, activeIndex |-> book.lastReadIndex,
               isLoadingMore |-> FALSE, prefetchTriggeredRef |-> 0]
    ELSE Unmounted

InitApp ==
    /\ BatchIdle
    /\ ChunkingIdle
    /\ apiKey \in BOOLEAN
    /\ AppStart

\* uuidv4(): an id no stored chunk and no chunk in flight has
UsedIds ==
    {c.id : c \in dbChunks} \cup {c.id : c \in upload.chunks}
        \cup UNION {{c.id : c \in loads[i].newChunks} : i \in 1..MaxLoads}
FreshId == IF UsedIds = {} THEN 1 ELSE 1 + (CHOOSE m \in UsedIds : \A k \in UsedIds : k <= m)

\* ---- handleFileUpload
UploadStart ==
    /\ upload.pc = "idle"
    /\ appState = "LIBRARY"
    /\ ~processingState.active
    /\ \E b \in 1..MaxBooks : dbBooks[b] = NoBook
    /\ processingState' = [active |-> TRUE]
    /\ upload' = [IdleUpload EXCEPT !.pc = "extract"]
    /\ rv' = Render(rv, TRUE, appState, currentBook)
    /\ UNCHANGED <<apiKey, dbBooks, dbChunks, appState, currentBook, loads>>
    /\ declined' = FALSE
    /\ UNCHANGED <<batchVars, chunkingVars>>

\* a faulty variant: on a failed extraction or a text shorter than the
\* minimum the handler returns without clearing the indicator
UploadExtracted_ReturnsBusy ==
    /\ upload.pc = "extract"
    /\ \/ /\ \E t \in UploadTexts \cup {Undefined} : t = Undefined \/ Len(t) < MIN_UPLOAD_LEN
          /\ processingState' = [active |-> TRUE]
          /\ upload' = IdleUpload
       \/ \E t \in UploadTexts :
          /\ Len(t) >= MIN_UPLOAD_LEN
          /\ processingState' = [active |-> TRUE]
          /\ upload' = [upload EXCEPT !.pc = "genre", !.text = t]
    /\ rv' = Render(rv, processingState'.active, appState, currentBook)
    /\ UNCHANGED <<apiKey, dbBooks, dbChunks, appState, currentBook, loads>>
    /\ declined' = FALSE
    /\ UNCHANGED <<batchVars, chunkingVars>>

\* extractTextFromPdf / extractTextFromTxt settles
UploadExtracted ==
    /\ upload.pc = "extract"
    /\ \/ \* the extraction throws, or the text is shorter than the minimum
          /\ \E t \in UploadTexts \cup {Undefined} : t = Undefined \/ Len(t) < MIN_UPLOAD_LEN
          /\ processingState' = [active |-> FALSE]
          /\ upload' = IdleUpload
       \/ \E t \in UploadTexts :
          /\ Len(t) >= MIN_UPLOAD_LEN
          /\ processingState' = [active |-> TRUE]
          /\ upload' = [upload EXCEPT !.pc = "genre", !.text = t]
    /\ rv' = Render(rv, processingState'.active, appState, currentBook)
    /\ UNCHANGED <<apiKey, dbBooks, dbChunks, appState, currentBook, loads>>
    /\ declined' = FALSE
    /\ UNCHANGED <<batchVars, chunkingVars>>

\* detectGenre settles: on a rejection the catch block ends the upload,
\* otherwise the first batch is cut and sent to semanticChunking
UploadGenre ==
    /\ upload.pc = "genre"
    /\ \E online \in BOOLEAN, outcome \in GenreOutcomes :
         IF detectGenre("current", apiKey, online, outcome).status = "rejected"
         THEN /\ processingState' = [active |-> FALSE]
              /\ upload' = IdleUpload
         ELSE /\ processingState' = [active |-> TRUE]
              /\ upload' = [upload EXCEPT
                    !.pc = "chunking",
                    !.firstBatchEnd = findSafeBatchEnd(upload.text, BATCH_SIZE, DEFAULT_MIN_CHUNK),
                    !.bookId = CHOOSE b \in 1..MaxBooks :
                                  dbBooks[b] = NoBook /\ \A c \in 1..(b - 1) : dbBooks[c] # NoBook]
    /\ rv' = Render(rv, processingState'.active, appState, currentBook)
    /\ UNCHANGED <<apiKey, dbBooks, dbChunks, appState, currentBook, loads>>
    /\ declined' = FALSE
    /\ UNCHANGED <<batchVars, chunkingVars>>

\* semanticChunking(firstBatchText, bookId, 0, undefined, ...) settles
UploadChunked ==
    /\ upload.pc = "chunking"
    /\ \E response \in AppResponses :
         LET r == semanticChunking(apiKey, Slice(upload.text, 0, upload.firstBatchEnd),
                                   upload.bookId, 0, Undefined, response)
         IN IF r.status = "rejected"
            THEN /\ processingState' = [active |-> FALSE]
                 /\ upload' = IdleUpload
            ELSE /\ upload' = [upload EXCEPT !.pc = "tx", !.chunks = WithIds(r.chunks, FreshId)]
                 /\ UNCHANGED processingState
    /\ rv' = Render(rv, processingState'.active, appState, currentBook)
    /\ UNCHANGED <<apiKey, dbBooks, dbChunks, appState, currentBook, loads>>
    /\ declined' = FALSE
    /\ UNCHANGED <<batchVars, chunkingVars>>

newBook(u) == [id |-> u.bookId, totalChunks |-> Cardinality(u.chunks),
               processedCharCount |-> u.firstBatchEnd, rawContent |-> u.text,
               lastReadIndex |-> 0]

\* a faulty variant: the book is added outside the transaction, so a failed
\* write of the chunks leaves a book without chunks
UploadSaved_BookFirst ==
    /\ upload.pc = "tx"
    /\ dbBooks' = [dbBooks EXCEPT ![upload.bookId] = newBook(upload)]
    /\ \/ /\ dbChunks' = dbChunks \cup upload.chunks
          /\ currentBook' = newBook(upload)
          /\ appState' = "READING"
       \/ UNCHANGED <<dbChunks, currentBook, appState>>
    /\ processingState' = [active |-> FALSE]
    /\ upload' = IdleUpload
    /\ rv' = Render(rv, FALSE, appState', currentBook')
    /\ UNCHANGED <<apiKey, loads>>
    /\ declined' = FALSE
    /\ UNCHANGED <<batchVars, chunkingVars>>

\* the transaction that adds the book and its first chunks commits or fails
UploadSaved ==
    /\ upload.pc = "tx"
    /\ \/ /\ dbBooks' = [dbBooks EXCEPT ![upload.bookId] = newBook(upload)]
          /\ dbChunks' = dbChunks \cup upload.chunks
          /\ currentBook' = newBook(upload)
          /\ appState' = "READING"
       \/ UNCHANGED <<dbBooks, dbChunks, currentBook, appState>>
    /\ processingState' = [active |-> FALSE]
    /\ upload' = IdleUpload
    /\ rv' = Render(rv, FALSE, appState', currentBook')
    /\ UNCHANGED <<apiKey, loads>>
    /\ declined' = FALSE
    /\ UNCHANGED <<batchVars, chunkingVars>>

\* ---- handleLoadMore
FreeSlots == {i \in 1..MaxLoads : loads[i].pc = "idle"}

\* the synchronous part of handleLoadMore, up to its first await, called with
\* the state of the render that created the handler
handleLoadMore(source) ==
    IF LoadMoreProceeds(processingState.active, currentBook)
    THEN LET slot == CHOOSE i \in FreeSlots : \A j \in FreeSlots : i <= j
             startChar == currentBook.processedCharCount
             nextBatchEnd == findSafeBatchEnd(SliceFrom(currentBook.rawContent, startChar),
                                              BATCH_SIZE, DEFAULT_MIN_CHUNK) + startChar
         IN loads' = [loads EXCEPT ![slot] =
                        [IdleLoad EXCEPT !.pc = "query", !.source = source,
                                         !.book = currentBook,
                                         !.nextBatchEnd = nextBatchEnd,
                                         !.textBatch = Slice(currentBook.rawContent, startChar, nextBatchEnd)]]
    ELSE UNCHANGED loads

\* the model's bound on requests: a free slot and room for more rows
MayRequest == FreeSlots # {} /\ FreshId <= MaxChunkRows

\* click on the loader at the end of the cards:
\* onClick={() => hasMoreContent && onLoadMore()}
ClickLoadMore ==
    /\ rv.mounted
    /\ MayRequest
    /\ IF hasMoreContent(currentBook)
       THEN handleLoadMore("click")
       ELSE UNCHANGED loads
    /\ declined' = ~hasMoreContent(currentBook)
    /\ UNCHANGED <<apiKey, dbBooks, dbChunks, appState, currentBook,
                   processingState, upload, rv>>
    /\ UNCHANGED <<batchVars, chunkingVars>>

\* the background prefetch effect of the reader view
Prefetch ==
    LET length == Cardinality(ChunksOf(dbChunks, currentBook.id))
        remainingChunks == length - rv.activeIndex
    IN /\ rv.mounted
       /\ MayRequest
       /\ length # 0
       /\ ~rv.isLoadingMore
       /\ remainingChunks <= PREFETCH_THRESHOLD
       /\ hasMoreContent(currentBook)
       /\ rv.prefetchTriggeredRef # length
       /\ rv' = [rv EXCEPT !.prefetchTriggeredRef = length]
       /\ handleLoadMore("prefetch")
       /\ declined' = FALSE
       /\ UNCHANGED <<apiKey, dbBooks, dbChunks, appState, currentBook,
                      processingState, upload>>
       /\ UNCHANGED <<batchVars, chunkingVars>>

\* useLiveQuery(() => db.chunks.where('bookId').equals(book.id).sortBy('index')):
\* the cards of the reader view, rows of equal index in the order of their ids
RECURSIVE SortByIndex(_)
SortByIndex(S) ==
    IF S = {} THEN <<>>
    ELSE LET first == CHOOSE c \in S :
                        \A d \in S : c.index < d.index \/ (c.index = d.index /\ c.id <= d.id)
         IN <<first>> \o SortByIndex(S \ {first})

\* the 'Next Chapter' button: scroll to the next chapter among the loaded
\* cards; if there is none, scroll to the last card and, if unprocessed text
\* remains, load more through onTriggerLoadMore (which sets isLoadingMore;
\* the view is unmounted by the load before its setIsLoadingMore(false) runs)
handleNextChapter ==
    LET chunks == SortByIndex(ChunksOf(dbChunks, currentBook.id))
        n == Len(chunks)
        currentChap == IF rv.activeIndex < n THEN chunks[rv.activeIndex + 1].chapterTitle
                       ELSE Undefined
        later == {i \in 0..(n - 1) : i > rv.activeIndex /\ chunks[i + 1].chapterTitle # currentChap}
    IN /\ rv.mounted
       /\ MayRequest
       /\ ~rv.isLoadingMore
       /\ IF later # {}
          THEN /\ rv' = [rv EXCEPT !.activeIndex = CHOOSE i \in later : \A j \in later : i <= j]
               /\ UNCHANGED loads
               /\ declined' = FALSE
          ELSE /\ rv' = [rv EXCEPT !.activeIndex = IF n > 0 THEN n - 1 ELSE @,
                                   !.isLoadingMore = hasMoreContent(currentBook)]
               /\ IF hasMoreContent(currentBook)
                  THEN handleLoadMore("next")
                  ELSE UNCHANGED loads
               /\ declined' = ~hasMoreContent(currentBook)
       /\ UNCHANGED <<apiKey, dbBooks, dbChunks, appState, currentBook,
                      processingState, upload>>
       /\ UNCHANGED <<batchVars, chunkingVars>>

\* await db.chunks.where('bookId').equals(id).sortBy('index') resolves:
\* context and nextIndex come from the last chunk, the indicator is set
LoadQueried(slot) ==
    /\ loads[slot].pc = "query"
    /\ LET last == LastChunks(dbChunks, loads[slot].book.id)
       IN IF last = {}
          THEN loads' = [loads EXCEPT ![slot].pc = "chunking",
                                      ![slot].context = Undefined,
                                      ![slot].nextIndex = 0]
          ELSE \E lastChunk \in last :
                 loads' = [loads EXCEPT ![slot].pc = "chunking",
                                        ![slot].context = lastChunk.chapterTitle,
                                        ![slot].nextIndex = lastChunk.index + 1]
    /\ processingState' = [active |-> TRUE]
    /\ rv' = Render(rv, TRUE, appState, currentBook)
    /\ UNCHANGED <<apiKey, dbBooks, dbChunks, appState, currentBook, upload>>
    /\ declined' = FALSE
    /\ UNCHANGED <<batchVars, chunkingVars>>

\* await semanticChunking(textBatch, id, nextIndex, context, ...) settles
LoadChunked(slot) ==
    /\ loads[slot].pc = "chunking"
    /\ \E response \in AppResponses :
         LET l == loads[slot]
             r == semanticChunking(apiKey, l.textBatch, l.book.id, l.nextIndex, l.context, response)
         IN IF r.status = "rejected"
            THEN /\ processingState' = [active |-> FALSE]
                 /\ loads' = [loads EXCEPT ![slot] = IdleLoad]
            ELSE /\ loads' = [loads EXCEPT ![slot].pc = "tx",
                                           ![slot].newChunks = WithIds(r.chunks, FreshId)]
                 /\ UNCHANGED processingState
    /\ rv' = Render(rv, processingState'.active, appState, currentBook)
    /\ UNCHANGED <<apiKey, dbBooks, dbChunks, appState, currentBook, upload>>
    /\ declined' = FALSE
    /\ UNCHANGED <<batchVars, chunkingVars>>

\* await db.transaction(...) settles: the batch commits as a whole
LoadCommitted(slot) ==
    /\ loads[slot].pc = "tx"
    /\ dbChunks' = LoadMoreTransaction(dbBooks, dbChunks, loads[slot]).chunks
    /\ dbBooks' = LoadMoreTransaction(dbBooks, dbChunks, loads[slot]).books
    /\ loads' = [loads EXCEPT ![slot].pc = "refresh"]
    /\ UNCHANGED <<apiKey, appState, currentBook, processingState, upload, rv>>
    /\ declined' = FALSE
    /\ UNCHANGED <<batchVars, chunkingVars>>

\* ... or the transaction fails as a whole and the catch block runs
LoadTransactionFailed(slot) ==
    /\ loads[slot].pc = "tx"
    /\ processingState' = [active |-> FALSE]
    /\ loads' = [loads EXCEPT ![slot] = IdleLoad]
    /\ rv' = Render(rv, FALSE, appState, currentBook)
    /\ UNCHANGED <<apiKey, dbBooks, dbChunks, appState, currentBook, upload>>
    /\ declined' = FALSE
    /\ UNCHANGED <<batchVars, chunkingVars>>

\* await db.books.get(id) resolves: the current book is refreshed and the
\* indicator is cleared
LoadRefreshed(slot) ==
    /\ loads[slot].pc = "refresh"
    /\ currentBook' = IF dbBooks[loads[slot].book.id] # NoBook
                      THEN dbBooks[loads[slot].book.id] ELSE currentBook
    /\ processingState' = [active |-> FALSE]
    /\ loads' = [loads EXCEPT ![slot] = IdleLoad]
    /\ rv' = Render(rv, FALSE, appState, currentBook')
    /\ UNCHANGED <<apiKey, dbBooks, dbChunks, appState, upload>>
    /\ declined' = FALSE
    /\ UNCHANGED <<batchVars, chunkingVars>>

\* ---- navigation
handleBackToLibrary ==
    /\ rv.mounted
    /\ appState' = "LIBRARY"
    /\ currentBook' = NoBook
    /\ rv' = Unmounted
    /\ UNCHANGED <<apiKey, dbBooks, dbChunks, processingState, upload, loads>>
    /\ declined' = FALSE
    /\ UNCHANGED <<batchVars, chunkingVars>>

NextApp ==
    \/ UploadStart
    \/ UploadExtracted
    \/ UploadGenre
    \/ UploadChunked
    \/ UploadSaved
    \/ ClickLoadMore
    \/ handleNextChapter
    \/ Prefetch
    \/ \E slot \in 1..MaxLoads : LoadQueried(slot)
    \/ \E slot \in 1..MaxLoads : LoadChunked(slot)
    \/ \E slot \in 1..MaxLoads : LoadCommitted(slot)
    \/ \E slot \in 1..MaxLoads : LoadTransactionFailed(slot)
    \/ \E slot \in 1..MaxLoads : LoadRefreshed(slot)
    \/ handleBackToLibrary

SpecApp == InitApp /\ [][NextApp]_vars

\* the pcs of a handleFileUpload invocation in flight
UploadPcs == {"extract", "genre", "chunking", "tx"}

\* C29: a step of an upload either leaves db.books and db.chunks as they
\* are, or it is the committing write, which adds the book's record and all
\* chunks of its first batch at once and opens the book; an upload that
\* ends in any other way has persisted nothing.
C29_UploadAllOrNothing ==
    [][(upload.pc \in UploadPcs /\ upload' # upload) =>
          \/ /\ dbBooks' = dbBooks
             /\ dbChunks' = dbChunks
             /\ appState' = appState
          \/ /\ upload.pc = "tx"
             /\ dbBooks[upload.bookId] = NoBook
             /\ dbBooks' = [dbBooks EXCEPT ![upload.bookId] = newBook(upload)]
             /\ dbChunks' = dbChunks \cup upload.chunks
             /\ ChunksOf(dbChunks', upload.bookId) = upload.chunks
             /\ dbBooks'[upload.bookId].totalChunks = Cardinality(upload.chunks)
             /\ appState' = "READING"]_vars

\* an upload stands at its database write with the chunks of its first
\* batch in hand and nothing of it persisted
C29_Witness ==
    /\ upload.pc = "tx"
    /\ upload.chunks # {}
    /\ dbBooks[upload.bookId] = NoBook
    /\ ChunksOf(dbChunks, upload.bookId) = {}

\* the index values of the persisted chunks of book b
Indexes(b) == {c.index : c \in ChunksOf(dbChunks, b)}

\* C1: the index values of a book's persisted chunks are exactly
\* 0, 1, ..., n-1: contiguous from 0, no gap, no duplicate.
C1_IndexesContiguous ==
    \A b \in 1..MaxBooks :
        LET n == Cardinality(ChunksOf(dbChunks, b))
        IN Indexes(b) = 0..(n - 1)

\* a load more that has passed its guards and has not yet persisted
InFlight(l) == l.pc \in {"query", "chunking", "tx"}

\* C2: no two batch loads of one book are in flight at the same time.
C2_NoOverlappingLoads ==
    \A i, j \in 1..MaxLoads :
        (i # j /\ InFlight(loads[i]) /\ InFlight(loads[j])) =>
            loads[i].book.id # loads[j].book.id

\* C9: a book's totalChunks equals the number of its persisted chunk rows.
C9_TotalChunksMatchesRows ==
    \A b \in 1..MaxBooks :
        dbBooks[b] # NoBook =>
            dbBooks[b].totalChunks = Cardinality(ChunksOf(dbChunks, b))

\* a load more for the current book starts, or the prefetch is issued
LoadMoreAccepted ==
    \/ \E slot \in 1..MaxLoads : loads[slot].pc = "idle" /\ loads'[slot].pc # "idle"
    \/ rv.mounted /\ rv'.mounted /\ rv'.prefetchTriggeredRef # rv.prefetchTriggeredRef

\* C7: when the stored book's processedCharCount has reached the length of
\* its raw text, no load more starts (so no segmentation call is made and
\* neither the book record nor the chunk store changes) and the prefetch is
\* not issued: a load starts only on a book with unprocessed text.
C7_NoLoadWhenExhausted ==
    /\ [][declined' => UNCHANGED <<dbBooks, dbChunks, loads>>]_vars
    /\ [][LoadMoreAccepted =>
            dbBooks[currentBook.id].processedCharCount < Len(dbBooks[currentBook.id].rawContent)]_vars

\* the transaction of load slot committed in this step
CommitStep(slot) ==
    /\ loads[slot].pc = "tx"
    /\ loads'[slot].pc = "refresh"
    /\ dbChunks' = dbChunks \cup loads[slot].newChunks
    /\ dbBooks'[loads[slot].book.id].processedCharCount = loads[slot].nextBatchEnd
    /\ dbBooks'[loads[slot].book.id].totalChunks =
          loads[slot].book.totalChunks + Cardinality(loads[slot].newChunks)

\* the transaction of an upload committed in this step
UploadCommitStep ==
    /\ upload.pc = "tx"
    /\ dbChunks' = dbChunks \cup upload.chunks
    /\ dbBooks' = [dbBooks EXCEPT ![upload.bookId] = newBook(upload)]

\* C8: a load more persists its batch atomically: before its transaction
\* none of the batch is visible, the chunks and the book's counters become
\* visible in one step, and a failed write leaves the book records and the
\* chunk store as they were; nothing else of a load more writes to them.
C8_AtomicBatch ==
    /\ [](\A slot \in 1..MaxLoads :
            loads[slot].pc \in {"query", "chunking", "tx"} =>
                loads[slot].newChunks \cap dbChunks = {})
    /\ [](\A slot \in 1..MaxLoads :
            loads[slot].pc = "refresh" => loads[slot].newChunks \subseteq dbChunks)
    /\ [][\A slot \in 1..MaxLoads :
            (loads[slot].pc = "tx" /\ loads'[slot].pc # "tx") =>
                CommitStep(slot) \/ UNCHANGED <<dbBooks, dbChunks>>]_vars
    /\ [][(dbChunks' # dbChunks \/ dbBooks' # dbBooks) =>
            UploadCommitStep \/ \E slot \in 1..MaxLoads : CommitStep(slot)]_vars

\* a batch of at least one chunk has just been committed
C8_Witness ==
    \E slot \in 1..MaxLoads :
        /\ loads[slot].pc = "refresh"
        /\ loads[slot].newChunks # {}
        /\ loads[slot].newChunks \subseteq dbChunks
        /\ dbBooks[loads[slot].book.id].processedCharCount = loads[slot].nextBatchEnd

\* ------------------------------------------------ sequential use of a book
\* One book is uploaded and then loaded batch by batch, each handler running
\* to completion before the next request; scArgs and scResult record the
\* segmentation call of the last load more.
SeqTexts ==
    UploadTexts \cup {<<"a", "a", NL, NL, "a", "a", "a", "a", ".", "a">>}
SixUntitled == [i \in 1..6 |-> Item(<<"t">>, Undefined)]
SeqResponses ==
    {Failure("throws"),
     Items(SixUntitled),
     Items(<<Item(<<"t">>, Undefined), Item(<<"t">>, STR_Chapter2), Item(<<"t">>, Undefined)>>),
     Items(<<Item(<<"t">>, STR_Chapter), Item(<<"t">>, STR_UnknownChapter)>>),
     Items(<<Item(<<"t">>, STR_Chapter3)>>)}

InitSeq ==
    /\ BatchIdle
    /\ ChunkingIdle
    /\ AppIdle

\* handleFileUpload from entry to setAppState(READING), nothing failing
SeqUpload ==
    /\ dbBooks[1] = NoBook
    /\ \E t \in SeqTexts, response \in SeqResponses :
         LET firstBatchEnd == findSafeBatchEnd(t, BATCH_SIZE, DEFAULT_MIN_CHUNK)
             r == semanticChunking(apiKey, Slice(t, 0, firstBatchEnd), 1, 0, Undefined, response)
             u == [IdleUpload EXCEPT !.text = t, !.firstBatchEnd = firstBatchEnd,
                                     !.bookId = 1, !.chunks = WithIds(r.chunks, FreshId)]
         IN /\ Len(t) >= MIN_UPLOAD_LEN
            /\ dbBooks' = [dbBooks EXCEPT ![1] = newBook(u)]
            /\ dbChunks' = dbChunks \cup u.chunks
            /\ currentBook' = newBook(u)
    /\ appState' = "READING"
    /\ UNCHANGED <<apiKey, processingState, upload, loads, rv, declined>>
    /\ UNCHANGED <<batchVars, chunkingVars>>

\* handleLoadMore from entry to the refresh of currentBook, nothing failing
SeqLoadMore ==
    /\ appState = "READING"
    /\ LoadMoreProceeds(processingState.active, currentBook)
    /\ \E response \in SeqResponses, lastChunk \in LastChunks(dbChunks, currentBook.id) \cup {NoBook} :
         LET none == LastChunks(dbChunks, currentBook.id) = {}
             startChar == currentBook.processedCharCount
             nextBatchEnd == findSafeBatchEnd(SliceFrom(currentBook.rawContent, startChar),
                                              BATCH_SIZE, DEFAULT_MIN_CHUNK) + startChar
             textBatch == Slice(currentBook.rawContent, startChar, nextBatchEnd)
             context == IF none THEN Undefined ELSE lastChunk.chapterTitle
             nextIndex == IF none THEN 0 ELSE lastChunk.index + 1
             r == semanticChunking(apiKey, textBatch, currentBook.id, nextIndex, context, response)
             l == [IdleLoad EXCEPT !.book = currentBook, !.nextBatchEnd = nextBatchEnd,
                                   !.textBatch = textBatch, !.context = context,
                                   !.nextIndex = nextIndex,
                                   !.newChunks = WithIds(r.chunks, FreshId)]
         IN /\ none <=> (lastChunk = NoBook)
            /\ scArgs' = [apiKey |-> apiKey, textSegment |-> textBatch, startIndex |-> nextIndex,
                          previousChapterContext |-> context, response |-> response]
            /\ scResult' = r
            /\ dbChunks' = LoadMoreTransaction(dbBooks, dbChunks, l).chunks
            /\ dbBooks' = LoadMoreTransaction(dbBooks, dbChunks, l).books
            /\ currentBook' = dbBooks'[currentBook.id]
    /\ UNCHANGED <<apiKey, appState, processingState, upload, loads, rv, declined>>
    /\ UNCHANGED batchVars

NextSeq == SeqUpload \/ SeqLoadMore

SpecSeq == InitSeq /\ [][NextSeq]_vars

\* a load more of the book has run in this step
LoadMoreRan ==
    /\ dbBooks[1] # NoBook
    /\ dbBooks'[1].processedCharCount # dbBooks[1].processedCharCount

\* the chunks of a fallback result that come from the paragraphs before the
\* first heading paragraph of the window
ChunksBeforeHeading(txt, ctx) ==
    LET paras == SplitParagraphs(txt)
        isHeading(k) == HeaderMatch(Trim(paras[k])) /\ Len(Trim(paras[k])) < 60
        before == {k \in 0..Len(paras) : \A j \in 1..k : ~isHeading(j)}
        n == CHOOSE k \in before : \A j \in before : j <= k
    IN Len(ChunkParagraphs(SubSeq(paras, 1, n), ctx, LONG_PARA, BUFFER_MAX))

\* the chunks of the batch that precede its first real title carry ctx
CarriesContext(args, res, ctx) ==
    IF args.response.kind = "items" /\ ~MapThrows(args.response.items)
    THEN \A i \in 1..Len(res.chunks) :
            (\A j \in 1..i : IsPlaceholderTitle(args.response.items[j].chapterTitle)) =>
                res.chunks[i].chapterTitle = ctx
    ELSE \A i \in 1..ChunksBeforeHeading(args.textSegment, ctx) :
            res.chunks[i].chapterTitle = ctx

\* C11: on every load more of a book that has chunks, the context passed to
\* segmentation is the chapter title of the highest-indexed persisted chunk,
\* and every chunk of the new batch that precedes the batch's first real
\* title carries that title, in the primary and in the fallback path.
C11_ContextCarriedOver ==
    [][(LoadMoreRan /\ LastChunks(dbChunks, 1) # {}) =>
         /\ \E c \in LastChunks(dbChunks, 1) :
               scArgs'.previousChapterContext = c.chapterTitle
         /\ CarriesContext(scArgs', scResult', scArgs'.previousChapterContext)]_vars

\* --------------------------------------- the fallback segmenters, one call
Segmenters == {"geminiService", "ai/fallback"}

InitFallback ==
    /\ BatchIdle
    /\ AppIdle
    /\ scResult = NoResult
    /\ scArgs \in [segmenter : Segmenters,
                   textSegment : SeqsUpTo(WindowChars, MaxFallbackLen),
                   startIndex : StartIndexes,
                   previousChapterContext : Contexts]

CallFallbackChunking ==
    /\ scResult = NoResult
    /\ scResult' = Resolved(IF scArgs.segmenter = "geminiService"
                            THEN fallbackChunking(scArgs.textSegment, 1, scArgs.startIndex,
                                                  scArgs.previousChapterContext)
                            ELSE fallbackChunking_ai(scArgs.textSegment, 1, scArgs.startIndex,
                                                     scArgs.previousChapterContext),
                            FALSE)
    /\ UNCHANGED scArgs
    /\ UNCHANGED batchVars
    /\ UNCHANGED appVars

NextFallback == CallFallbackChunking

SpecFallback == InitFallback /\ [][NextFallback]_vars

\* C13: for every text, startIndex s and context, both fallback segmenters
\* return chunks whose indexes are s, s+1, ..., s+k-1 in output order, and
\* every chunk's tags contain "fallback".
C13_FallbackIndexesAndTags ==
    scResult # NoResult =>
        \A i \in 1..Len(scResult.chunks) :
            /\ scResult.chunks[i].index = scArgs.startIndex + (i - 1)
            /\ \E k \in 1..Len(scResult.chunks[i].tags) : scResult.chunks[i].tags[k] = "fallback"

\* a call in the middle of a book that returned three chunks or more
C13_Witness ==
    /\ scResult # NoResult
    /\ scArgs.startIndex > 0
    /\ Len(scResult.chunks) >= 3
    /\ scResult.chunks[3].index = scArgs.startIndex + 2

\* C15: no chunk returned by a fallback segmenter has a text longer than the
\* segmenter's long-paragraph threshold.
C15_FallbackChunkLengthBounded ==
    scResult # NoResult =>
        \A i \in 1..Len(scResult.chunks) :
            Len(scResult.chunks[i].text) <=
                (IF scArgs.segmenter = "geminiService" THEN LONG_PARA ELSE LONG_PARA_AI)

\* the heading forms: Chapter N, Part X, Prologue, Epilogue (any case, at
\* the start of the paragraph), or a line of 4 to 20 capitals and spaces
IsHeading(s) ==
    \/ StartsWithCI(s, <<"c", "h", "a", "p", "t", "e", "r">>) /\ SpacesThen(s, 7, TRUE)
    \/ StartsWithCI(s, <<"p", "a", "r", "t">>) /\ SpacesThen(s, 4, FALSE)
    \/ StartsWithCI(s, <<"p", "r", "o", "l", "o", "g", "u", "e">>)
    \/ StartsWithCI(s, <<"e", "p", "i", "l", "o", "g", "u", "e">>)
    \/ /\ Len(s) >= 4
       /\ Len(s) <= 20
       /\ \A i \in 1..Len(s) : IsUpper(s[i]) \/ IsSpace(s[i])

\* the running chapter title at paragraph k: the most recent heading at or
\* before k, else the start title
RunningTitle(paras, k, start) ==
    LET headings == {j \in 1..k : IsHeading(Trim(paras[j])) /\ Len(Trim(paras[j])) < 60}
    IN IF headings = {} THEN start
       ELSE Trim(paras[CHOOSE j \in headings : \A h \in headings : h <= j])

\* the titles of the chunks of paragraphs k, k+1, ...: every chunk cut from
\* a paragraph carries the running title at that paragraph
RECURSIVE TitlesFrom(_, _, _, _, _)
TitlesFrom(paras, k, start, longPara, bufferMax) ==
    IF k > Len(paras) THEN <<>>
    ELSE [i \in 1..Len(ChunkParagraphs(<<paras[k]>>, start, longPara, bufferMax)) |->
             RunningTitle(paras, k, start)]
         \o TitlesFrom(paras, k + 1, start, longPara, bufferMax)

\* C23: every chunk of a fallback segmenter carries the running chapter
\* title: the trimmed text of the most recent heading paragraph shorter than
\* 60 characters at or before its own paragraph, and before any heading the
\* supplied context, else "Chapter 1" when startIndex = 0, else "Unknown
\* Chapter".
C23_FallbackRunningTitle ==
    scResult # NoResult =>
        LET ctx == scArgs.previousChapterContext
            start == IF Truthy(ctx) THEN ctx
                     ELSE IF scArgs.startIndex = 0 THEN STR_Chapter1 ELSE STR_UnknownChapter
            expected == TitlesFrom(SplitParagraphs(scArgs.textSegment), 1, start,
                                   IF scArgs.segmenter = "geminiService" THEN LONG_PARA
                                   ELSE LONG_PARA_AI,
                                   IF scArgs.segmenter = "geminiService" THEN BUFFER_MAX
                                   ELSE BUFFER_MAX_AI)
        IN [i \in 1..Len(scResult.chunks) |-> scResult.chunks[i].chapterTitle] = expected

\* ------------------------------------------------- detectGenre, one call
InitGenre ==
    /\ BatchIdle
    /\ AppIdle
    /\ scResult = NoResult
    /\ scArgs \in [version : GenreVersions, key : BOOLEAN, online : BOOLEAN,
                   outcome : GenreOutcomes]

CallDetectGenre ==
    /\ scResult = NoResult
    /\ scResult' = detectGenre(scArgs.version, scArgs.key, scArgs.online, scArgs.outcome)
    /\ UNCHANGED scArgs
    /\ UNCHANGED batchVars
    /\ UNCHANGED appVars

NextGenre == CallDetectGenre

SpecGenre == InitGenre /\ [][NextGenre]_vars

\* the classifier call failed: no key, an error, or no recognised label
GenreCallFailed ==
    \/ ~scArgs.key
    \/ scArgs.outcome.kind \in GenreThrowKinds
    \/ ~Truthy(scArgs.outcome.text)
    \/ ToLowerCase(Trim(scArgs.outcome.text)) \notin GenreLabels(scArgs.version)

\* C16: detectGenre always resolves to one of the fixed labels, and to
\* 'non_fiction' when the classifier call fails in any way (missing key,
\* service error, network failure, unrecognised answer); it never rejects.
C16_GenreNeverFails ==
    scResult # NoResult =>
        /\ scResult.status = "resolved"
        /\ scResult.genre \in GenreLabels(scArgs.version)
        /\ GenreCallFailed => scResult.genre = STR_non_fiction

\* ------------------------------------------- extractTextFromPdf, one call

\* lines of a page as sortTextByLines hands them over: trimmed, not empty
PdfLines == {<<"a">>, <<"2">>, <<"b", "-">>}

\* scArgs is the browser environment of the call, scResult its promise
InitPdf ==
    /\ BatchIdle
    /\ AppIdle
    /\ scArgs \in [pdfjsLib : BOOLEAN, onProgress : BOOLEAN]
    /\ scResult = PdfPending

PdfStep(r) ==
    /\ scResult' = r
    /\ UNCHANGED scArgs
    /\ UNCHANGED batchVars
    /\ UNCHANGED appVars

\* if (!window.pdfjsLib) throw ...; otherwise enter the try block
PdfCall ==
    /\ scResult.pc = "call"
    /\ IF ~scArgs.pdfjsLib
       THEN PdfStep([scResult EXCEPT !.pc = "done", !.status = "rejected",
                                     !.message = STR_LibraryNotLoaded])
       ELSE PdfStep([scResult EXCEPT !.pc = "arrayBuffer"])

\* await file.arrayBuffer()
PdfArrayBuffer ==
    /\ scResult.pc = "arrayBuffer"
    /\ LET r == [scResult EXCEPT !.fileRead = TRUE]
       IN \/ PdfStep([r EXCEPT !.pc = "getDocument"])
          \/ PdfStep(PdfCatch(r, "arrayBuffer"))

\* await window.pdfjsLib.getDocument({ data }).promise; the loop starts at page 1
PdfGetDocument ==
    /\ scResult.pc = "getDocument"
    /\ LET r == [scResult EXCEPT !.documentLoads = @ + 1]
       IN \/ \E n \in 0..MaxPages : PdfStep(PdfLoop([r EXCEPT !.totalPages = n], 1))
          \/ PdfStep(PdfCatch(r, "getDocument"))

\* await pdf.getPage(pageNum)
PdfGetPage ==
    /\ scResult.pc = "getPage"
    /\ LET r == [scResult EXCEPT !.pagesRead = Append(@, scResult.pageNum)]
       IN \/ PdfStep([r EXCEPT !.pc = "getTextContent"])
          \/ PdfStep(PdfCatch(r, "getPage"))

\* await page.getTextContent(), the page's lines cleaned and appended to
\* fullText, the progress callback, and the next turn of the loop
PdfGetTextContent ==
    /\ scResult.pc = "getTextContent"
    /\ \/ \E rawLines \in SeqsUpTo(PdfLines, MaxPageLines) :
            LET cleanedLines == removePageArtifacts(rawLines, scResult.pageNum)
                r == [scResult EXCEPT
                         !.fullText = @ \o JoinLines(cleanedLines) \o <<NL, NL>>]
            IN \/ PdfStep(PdfLoop(r, scResult.pageNum + 1))
               \/ scArgs.onProgress /\ PdfStep(PdfCatch(r, "onProgress"))
       \/ PdfStep(PdfCatch(scResult, "getTextContent"))

\* return postProcessCleaner(fullText)
PdfReturn ==
    /\ scResult.pc = "return"
    /\ PdfStep([scResult EXCEPT !.pc = "done", !.status = "resolved",
                                !.text = postProcessCleaner(scResult.fullText)])

NextPdf ==
    \/ PdfCall
    \/ PdfArrayBuffer
    \/ PdfGetDocument
    \/ PdfGetPage
    \/ PdfGetTextContent
    \/ PdfReturn

SpecPdf == InitPdf /\ [][NextPdf]_vars

\* C17: without the extraction backend the call rejects with the 'library
\* not loaded' error before the file is read; a failure while loading the
\* document or reading a page rejects with the one 'Failed to parse PDF'
\* error, hands back no text, and nothing is attempted a second time (the
\* document is loaded at most once, each page is requested at most once and
\* in order).
C17_PdfErrors ==
    /\ (~scArgs.pdfjsLib /\ scResult.pc # "call") =>
           /\ scResult.status = "rejected"
           /\ scResult.message = STR_LibraryNotLoaded
           /\ ~scResult.fileRead
           /\ scResult.text = Undefined
    /\ scResult.failedAt # "none" =>
           /\ scResult.status = "rejected"
           /\ scResult.message = STR_FailedToParse
           /\ scResult.text = Undefined
           /\ scResult.pc = "done"
    /\ scResult.status = "rejected" => scResult.text = Undefined
    /\ scResult.documentLoads <= 1
    /\ \A i \in 1..Len(scResult.pagesRead) : scResult.pagesRead[i] = i

\* a later page fails after an earlier page was read into fullText
C17_Witness ==
    /\ scResult.failedAt \in {"getPage", "getTextContent"}
    /\ scResult.pageNum = 2
    /\ scResult.fullText # <<>>
    /\ scResult.status = "rejected"

\* ------------------------------------------- removePageArtifacts, one call

\* page lines as sortTextByLines hands them over (trimmed, not empty): page
\* numbers in the forms of the pattern, and lines that only resemble them
ArtifactLines ==
    {<<"1">>, <<"2">>, <<"1", "2">>, <<"a">>, <<"2", "a">>,
     <<"p", "a", "g", "e">>, <<"P", "a", "g", "e", " ", "1">>, <<"p", "a", "g", "e", "2">>,
     <<"1", " ", "o", "f", " ", "2">>, <<"2", "O", "F", "3">>, <<"o", "f", " ", "2">>}

InitArtifacts ==
    /\ BatchIdle
    /\ AppIdle
    /\ scResult = NoResult
    /\ scArgs \in [lines : SeqsUpTo(ArtifactLines, MaxPageLines), pageNum : 1..MaxPages]

CallRemovePageArtifacts ==
    /\ scResult = NoResult
    /\ scResult' = [status |-> "returned",
                    lines |-> removePageArtifacts(scArgs.lines, scArgs.pageNum)]
    /\ UNCHANGED scArgs
    /\ UNCHANGED batchVars
    /\ UNCHANGED appVars

NextArtifacts == CallRemovePageArtifacts

SpecArtifacts == InitArtifacts /\ [][NextArtifacts]_vars

\* digits, optionally prefixed 'page', optionally suffixed 'of N' (any case,
\* at most one white-space character at each joint)
MatchesPagePattern(l) ==
    LET digits(x) == x # <<>> /\ \A i \in 1..Len(x) : IsDigit(x[i])
        word(x, w) == Len(x) = Len(w) /\ \A i \in 1..Len(w) : Lower(x[i]) = w[i]
        blank(x) == x = <<>> \/ (Len(x) = 1 /\ IsSpace(x[1]))
        prefix(x) == x = <<>> \/ (Len(x) >= 4 /\ word(SubSeq(x, 1, 4), <<"p", "a", "g", "e">>)
                                    /\ blank(SubSeq(x, 5, Len(x))))
        suffix(x) == x = <<>> \/
                     \E a \in 0..1, b \in 0..1 :
                         /\ Len(x) > a + 2 + b
                         /\ blank(SubSeq(x, 1, a)) /\ Len(SubSeq(x, 1, a)) = a
                         /\ word(SubSeq(x, a + 1, a + 2), <<"o", "f">>)
                         /\ blank(SubSeq(x, a + 3, a + 2 + b)) /\ Len(SubSeq(x, a + 3, a + 2 + b)) = b
                         /\ digits(SubSeq(x, a + 3 + b, Len(x)))
    IN \E p \in 0..Len(l), q \in 1..Len(l) :
           /\ p < q
           /\ prefix(SubSeq(l, 1, p))
           /\ digits(SubSeq(l, p + 1, q))
           /\ suffix(SubSeq(l, q + 1, Len(l)))

Droppable(l) == MatchesPagePattern(l) \/ l = String(scArgs.pageNum)

\* C20: a page of fewer than 3 lines comes back unchanged; on a longer page
\* only the first line and the last line can be missing from the result,
\* each only when it matches the page-number pattern or is the page number,
\* and all other lines are there in their order.
C20_OnlyEdgePageNumbersRemoved ==
    scResult # NoResult =>
        LET lines == scArgs.lines
            n == Len(lines)
        IN IF n < 3 THEN scResult.lines = lines
           ELSE \E i \in {1, 2}, j \in {n - 1, n} :
                    /\ scResult.lines = SubSeq(lines, i, j)
                    /\ i = 2 => Droppable(lines[1])
                    /\ j = n - 1 => Droppable(lines[n])

\* the header goes, the footer stays, and a page number in the middle of
\* the page is kept
C20_Witness ==
    /\ scResult # NoResult
    /\ Len(scArgs.lines) >= 4
    /\ scResult.lines = Tail(scArgs.lines)
    /\ Droppable(scArgs.lines[2])
    /\ scArgs.lines[2] # scArgs.lines[3]

\* ------------------------------------------- cleanExtractedText, one call

\* words and fragments of extracted text
CleanTokens ==
    {<<"t">>, <<"h", "e">>, <<"r", "e">>, <<"a">>, <<"p", "a", "r", "t">>, <<"o", "f">>,
     <<"C", "h", "a", "p", "t", "e", "r">>, <<"O", "n", "e">>, <<"1">>, <<"'", "s">>,
     <<"T", "H", "E", "M", "A", "N">>, <<"B">>, <<"O", "Y">>}

CleanSeparators == {<<" ">>, <<" ", " ">>, <<NL>>}

\* texts of n tokens with a separator between neighbours
RECURSIVE CleanTexts(_)
CleanTexts(n) ==
    IF n = 1 THEN CleanTokens
    ELSE {t \o sep \o w : t \in CleanTexts(n - 1), sep \in CleanSeparators, w \in CleanTokens}

InitClean ==
    /\ BatchIdle
    /\ AppIdle
    /\ scResult = NoResult
    /\ \E n \in 1..MaxTokens : scArgs \in [text : CleanTexts(n)]

\* the cleaner applied to the text, and applied again to its own output
CallCleanExtractedText ==
    /\ scResult = NoResult
    /\ scResult' = [status |-> "returned",
                    once |-> cleanExtractedText(scArgs.text),
                    twice |-> cleanExtractedText(cleanExtractedText(scArgs.text))]
    /\ UNCHANGED scArgs
    /\ UNCHANGED batchVars
    /\ UNCHANGED appVars

NextClean == CallCleanExtractedText

SpecClean == InitClean /\ [][NextClean]_vars

\* the text has two upper-case letters side by side
HasUppercaseRun(s) == \E i \in 1..(Len(s) - 1) : IsUpper(s[i]) /\ IsUpper(s[i + 1])

\* C18: for a text without a run of joined upper-case letters, cleaning the
\* cleaned text again changes nothing.
C18_CleanIdempotent ==
    (scResult # NoResult /\ ~HasUppercaseRun(scArgs.text)) => scResult.twice = scResult.once

\* the white-space separated words of s, in order
RECURSIVE WordsOf(_)
WordsOf(s) ==
    LET t == TrimLeft(s)
        stops == {i \in 1..Len(t) : IsSpace(t[i])}
        e == IF stops = {} THEN Len(t) ELSE (CHOOSE i \in stops : \A j \in stops : i <= j) - 1
    IN IF t = <<>> THEN <<>>
       ELSE <<SubSeq(t, 1, e)>> \o WordsOf(SubSeq(t, e + 1, Len(t)))

\* single-spaced and free of the artifacts the cleaner repairs: no
\* upper-case run of 6 or more, no apostrophe after white space, no single
\* capital in front of an all-caps word, no two neighbouring words that join
\* into a dictionary word, and nothing for any of the three repair steps
\* to change
AlreadyClean(s) ==
    LET w == WordsOf(s)
    IN /\ \A i \in 1..Len(s) : IsSpace(s[i]) => s[i] = " "
       /\ \A i \in 1..(Len(s) - 1) : ~(s[i] = " " /\ s[i + 1] = " ")
       /\ \A i \in 1..Len(s) : RunEnd(s, i, "upper") - i + 1 < 6
       /\ \A i \in 2..Len(s) : s[i] = "'" => ~IsSpace(s[i - 1])
       /\ \A i \in 1..(Len(w) - 1) :
              /\ ~(Len(w[i]) = 1 /\ IsUpper(w[i][1]) /\ HasUppercaseRun(w[i + 1]))
              /\ ~InDictionary(ToLowerCase(w[i] \o w[i + 1]))
       /\ fixPossessivesAndContractions(s) = s
       /\ splitJoinedUppercaseWords(s, 1) = s
       /\ fixBrokenWords(s) = s

\* the same word, or a token that begins with a heading word in another case
SameWording(a, b) ==
    \/ a = b
    \/ /\ ToLowerCase(a) = ToLowerCase(b)
       /\ \E h \in HeadingWords : StartsWithCI(a, h)

\* C19: on an already clean text the cleaner keeps every white-space
\* separated word, in order, changing at most the letter case of a
\* CHAPTER / PART / PROLOGUE / EPILOGUE heading token.
C19_CleanTextKeepsWording ==
    (scResult # NoResult /\ AlreadyClean(scArgs.text)) =>
        LET in == WordsOf(scArgs.text)
            out == WordsOf(scResult.once)
        IN /\ Len(out) = Len(in)
           /\ \A i \in 1..Len(in) : SameWording(in[i], out[i])

\* ------------------------------------------------- a library of two books
\* The application starts on a library that already holds uploaded books.
\* Books are opened from the library, read and loaded further, the library
\* is synced with the cloud and the cache is cleared. scArgs holds the
\* handleSelectBook invocation in flight and scResult its outcome.
STR_ContentMissing == "This book's content is missing. Please re-upload."
STR_BookNotFound == "Book not found in database."

\* what a completed handleFileUpload of text t leaves in the database
Uploaded(id, t, response, firstId) ==
    LET firstBatchEnd == findSafeBatchEnd(t, BATCH_SIZE, DEFAULT_MIN_CHUNK)
        r == semanticChunking(TRUE, Slice(t, 0, firstBatchEnd), id, 0, Undefined, response)
        u == [IdleUpload EXCEPT !.text = t, !.firstBatchEnd = firstBatchEnd,
                                !.bookId = id, !.chunks = WithIds(r.chunks, firstId)]
    IN [book |-> newBook(u), chunks |-> u.chunks]

LibraryTexts == {<<"a", ".", "a", "a", "a", "a">>}
LibraryResponses == {Items(<<Item(<<"t">>, STR_Chapter1)>>)}
CloudTotalChunks == {0, 2}

IdleSelect == [pc |-> "idle", book |-> NoBook, before |-> {}, duplicateIds |-> {}, count |-> 0]
NoOutcome == [status |-> "none", message |-> "", book |-> 0]

InitLibrary ==
    /\ BatchIdle
    /\ scArgs = IdleSelect
    /\ scResult = NoOutcome
    /\ apiKey = TRUE
    /\ \E t \in LibraryTexts, response \in LibraryResponses, second \in BOOLEAN :
         LET one == Uploaded(1, t, response, 1)
             two == Uploaded(2, t, response, 1 + Cardinality(one.chunks))
         IN /\ dbBooks = [b \in 1..MaxLibraryBooks |->
                            IF b = 1 THEN one.book
                            ELSE IF b = 2 /\ second THEN two.book ELSE NoBook]
            /\ dbChunks = one.chunks \cup (IF second THEN two.chunks ELSE {})
    /\ appState = "LIBRARY"
    /\ currentBook = NoBook
    /\ processingState = [active |-> FALSE]
    /\ upload = IdleUpload
    /\ loads = [i \in 1..MaxLoads |-> IdleLoad]
    /\ rv = Unmounted
    /\ declined = FALSE

\* useBooks: every cloud book without a local record gets a placeholder
\* record that carries the cloud's chunk count and no text
syncLibrary ==
    /\ \E cloudBooks \in SUBSET (1..MaxLibraryBooks), totalChunks \in CloudTotalChunks :
         dbBooks' = [b \in 1..MaxLibraryBooks |->
                       IF b \in cloudBooks /\ dbBooks[b] = NoBook
                       THEN [id |-> b, totalChunks |-> totalChunks, processedCharCount |-> 0,
                             rawContent |-> <<>>, lastReadIndex |-> 0]
                       ELSE dbBooks[b]]
    /\ UNCHANGED <<apiKey, dbChunks, appState, currentBook, processingState,
                   upload, loads, rv, declined>>
    /\ UNCHANGED <<batchVars, chunkingVars>>

\* handleClearCache, confirmed: all chunks and all raw text are removed, the
\* book records stay, and the page is reloaded
handleClearCache ==
    /\ dbChunks' = {}
    /\ dbBooks' = [b \in 1..MaxLibraryBooks |->
                     IF dbBooks[b] = NoBook THEN NoBook
                     ELSE [dbBooks[b] EXCEPT !.rawContent = <<>>, !.processedCharCount = 0,
                                             !.totalChunks = 0]]
    /\ appState' = "LIBRARY"
    /\ currentBook' = NoBook
    /\ processingState' = [active |-> FALSE]
    /\ loads' = [i \in 1..MaxLoads |-> IdleLoad]
    /\ rv' = Unmounted
    /\ scArgs' = IdleSelect
    /\ scResult' = NoOutcome
    /\ declined' = FALSE
    /\ UNCHANGED <<apiKey, upload>>
    /\ UNCHANGED batchVars

\* cleanupDuplicateChunks, the loop over the sorted chunks: the ids of all
\* chunks but the first one of every index, given the chunks that come first
duplicateIds(chunks, firsts) == {c.id : c \in chunks \ firsts}

\* the possible sets of first chunks: one chunk of every index
FirstsOf(chunks) ==
    {f \in SUBSET chunks :
        /\ \A c \in chunks : \E d \in f : d.index = c.index
        /\ \A c, d \in f : c.index = d.index => c = d}

\* a click on a book of the library: handleSelectBook up to the query of
\* cleanupDuplicateChunks; a book without chunk count is refused at once
handleSelectBook(b) ==
    /\ appState = "LIBRARY"
    /\ ~processingState.active
    /\ scArgs.pc = "idle"
    /\ dbBooks[b] # NoBook
    /\ IF dbBooks[b].totalChunks = 0
       THEN /\ scResult' = [status |-> "error", message |-> STR_ContentMissing, book |-> b]
            /\ UNCHANGED scArgs
       ELSE /\ scArgs' = [IdleSelect EXCEPT !.pc = "query", !.book = dbBooks[b]]
            /\ scResult' = NoOutcome
    /\ UNCHANGED appVars
    /\ UNCHANGED batchVars

\* await db.chunks.where('bookId').equals(bookId).sortBy('index') resolves
\* and the loop collects the duplicates
SelectQueried ==
    /\ scArgs.pc = "query"
    /\ \E firsts \in FirstsOf(ChunksOf(dbChunks, scArgs.book.id)) :
         LET ids == duplicateIds(ChunksOf(dbChunks, scArgs.book.id), firsts)
         IN scArgs' = [scArgs EXCEPT !.pc = IF ids # {} THEN "delete" ELSE "get",
                                     !.before = dbChunks,
                                     !.duplicateIds = ids]
    /\ UNCHANGED <<appVars, scResult>>
    /\ UNCHANGED batchVars

\* await db.chunks.bulkDelete(duplicateIds) resolves
SelectDeleted ==
    /\ scArgs.pc = "delete"
    /\ dbChunks' = {c \in dbChunks : c.id \notin scArgs.duplicateIds}
    /\ scArgs' = [scArgs EXCEPT !.pc = "count"]
    /\ UNCHANGED <<apiKey, dbBooks, appState, currentBook, processingState,
                   upload, loads, rv, declined, scResult>>
    /\ UNCHANGED batchVars

\* await db.chunks.where('bookId').equals(bookId).count() resolves
SelectCounted ==
    /\ scArgs.pc = "count"
    /\ scArgs' = [scArgs EXCEPT !.pc = "update",
                                !.count = Cardinality(ChunksOf(dbChunks, scArgs.book.id))]
    /\ UNCHANGED <<appVars, scResult>>
    /\ UNCHANGED batchVars

\* await db.books.update(bookId, { totalChunks: count }) resolves
SelectUpdated ==
    /\ scArgs.pc = "update"
    /\ dbBooks' = IF dbBooks[scArgs.book.id] = NoBook THEN dbBooks
                  ELSE [dbBooks EXCEPT ![scArgs.book.id].totalChunks = scArgs.count]
    /\ scArgs' = [scArgs EXCEPT !.pc = "get"]
    /\ UNCHANGED <<apiKey, dbChunks, appState, currentBook, processingState,
                   upload, loads, rv, declined, scResult>>
    /\ UNCHANGED batchVars

\* await db.books.get(book.id) resolves: the book is opened
SelectFetched ==
    /\ scArgs.pc = "get"
    /\ LET fullBook == dbBooks[scArgs.book.id]
       IN IF fullBook # NoBook
          THEN /\ currentBook' = fullBook
               /\ appState' = "READING"
               /\ scResult' = [status |-> "opened", message |-> "", book |-> scArgs.book.id]
          ELSE /\ UNCHANGED <<currentBook, appState>>
               /\ scResult' = [status |-> "error", message |-> STR_BookNotFound, book |-> scArgs.book.id]
    /\ scArgs' = [scArgs EXCEPT !.pc = "idle"]
    /\ rv' = Render(rv, processingState.active, appState', currentBook')
    /\ UNCHANGED <<apiKey, dbBooks, dbChunks, processingState, upload, loads, declined>>
    /\ UNCHANGED batchVars

\* handleScroll: another card has come closest to the centre of the view; it
\* becomes the active card and is stored as the book's lastReadIndex
handleScroll ==
    /\ rv.mounted
    /\ \E closestIndex \in 0..(Cardinality(ChunksOf(dbChunks, currentBook.id)) - 1) :
         /\ closestIndex # rv.activeIndex
         /\ rv' = [rv EXCEPT !.activeIndex = closestIndex]
         /\ dbBooks' = IF dbBooks[currentBook.id] = NoBook THEN dbBooks
                       ELSE [dbBooks EXCEPT ![currentBook.id].lastReadIndex = closestIndex]
    /\ UNCHANGED <<apiKey, dbChunks, appState, currentBook, processingState,
                   upload, loads, declined>>
    /\ UNCHANGED <<batchVars, chunkingVars>>

NextLibrary ==
    \/ syncLibrary
    \/ handleClearCache
    \/ \E b \in 1..MaxLibraryBooks : handleSelectBook(b)
    \/ SelectQueried
    \/ SelectDeleted
    \/ SelectCounted
    \/ SelectUpdated
    \/ SelectFetched
    \/ ClickLoadMore
    \/ Prefetch
    \/ \E slot \in 1..MaxLoads : LoadQueried(slot)
    \/ \E slot \in 1..MaxLoads : LoadChunked(slot)
    \/ \E slot \in 1..MaxLoads : LoadCommitted(slot)
    \/ \E slot \in 1..MaxLoads : LoadTransactionFailed(slot)
    \/ \E slot \in 1..MaxLoads : LoadRefreshed(slot)
    \/ handleBackToLibrary

SpecLibrary == InitLibrary /\ [][NextLibrary]_vars


\* a step of the handleLoadMore invocation in the slot
LoadMoreStep(slot) == loads'[slot] # loads[slot] /\ ~handleClearCache

\* C24: a load more only adds chunks, and only to its own book: every step
\* of a handleLoadMore invocation keeps all persisted chunks of all books as
\* they are, every chunk it adds carries the id of the book the handler was
\* called for, and the record of every other book stays as it is.
C24_LoadMoreOnlyAdds ==
    [][\A slot \in 1..MaxLoads :
          LoadMoreStep(slot) =>
              LET id == IF loads[slot].pc = "idle" THEN currentBook.id ELSE loads[slot].book.id
              IN /\ dbChunks \subseteq dbChunks'
                 /\ \A c \in dbChunks' \ dbChunks : c.bookId = id
                 /\ \A b \in 1..MaxLibraryBooks : b # id => dbBooks'[b] = dbBooks[b]]_vars

\* a load more of one book has committed chunks while the other book has
\* chunks of its own
C24_Witness ==
    \E slot \in 1..MaxLoads, other \in 1..MaxLibraryBooks :
        /\ loads[slot].pc = "refresh"
        /\ loads[slot].newChunks # {}
        /\ loads[slot].newChunks \subseteq dbChunks
        /\ other # loads[slot].book.id
        /\ dbBooks[other] # NoBook
        /\ ChunksOf(dbChunks, other) # {}

\* C30: whenever handleSelectBook finishes, it has opened the book only if
\* the book has a chunk in the local store, and for a book without local
\* chunks it has shown the 'content is missing' error and the application is
\* still in the library.
C30_OpensOnlyBooksWithChunks ==
    [][(scResult' # scResult /\ scResult'.status # "none") =>
          /\ scResult'.status = "opened" => ChunksOf(dbChunks', scResult'.book) # {}
          /\ ChunksOf(dbChunks', scResult'.book) = {} =>
                /\ scResult' = [status |-> "error", message |-> STR_ContentMissing,
                                book |-> scResult'.book]
                /\ appState' = "LIBRARY"]_vars

\* C28: when cleanupDuplicateChunks(bookId) completes, the chunks of the
\* book have pairwise different indexes, every index the book had when the
\* cleanup read its chunks is still there with one of those chunks, the
\* chunks other books had are all still stored, and the book's totalChunks
\* is the number of its chunks.
C28_CleanupLeavesOneChunkPerIndex ==
    [][(scArgs.pc \in {"query", "update"} /\ scArgs'.pc = "get") =>
          LET id == scArgs'.book.id
              before == scArgs'.before
              kept == ChunksOf(dbChunks', id)
          IN /\ \A c, d \in kept : c.index = d.index => c = d
             /\ \A c \in ChunksOf(before, id) : \E d \in kept \cap before : d.index = c.index
             /\ before \ ChunksOf(before, id) \subseteq dbChunks'
             /\ dbBooks'[id].totalChunks = Cardinality(kept)]_vars

\* ------------------------------------------------------ one book is read
\* The reader view is open on a book with unprocessed text: the active card
\* changes, more is loaded by click and by the prefetch effect.
ReaderTexts == LibraryTexts \cup {<<"a", ".", "a", "a", "a", "a", "a", "a", "a", "a">>}

InitReader ==
    /\ BatchIdle
    /\ ChunkingIdle
    /\ apiKey \in BOOLEAN
    /\ \E t \in ReaderTexts, response \in LibraryResponses :
         LET one == Uploaded(1, t, response, 1)
         IN /\ dbBooks = [b \in 1..MaxBooks |-> one.book]
            /\ dbChunks = one.chunks
            /\ currentBook = one.book
            /\ rv = Render(Unmounted, FALSE, "READING", one.book)
    /\ appState = "READING"
    /\ processingState = [active |-> FALSE]
    /\ upload = IdleUpload
    /\ loads = [i \in 1..MaxLoads |-> IdleLoad]
    /\ declined = FALSE

NextReader ==
    \/ handleScroll
    \/ ClickLoadMore
    \/ Prefetch
    \/ \E slot \in 1..MaxLoads : LoadQueried(slot)
    \/ \E slot \in 1..MaxLoads : LoadChunked(slot)
    \/ \E slot \in 1..MaxLoads : LoadCommitted(slot)
    \/ \E slot \in 1..MaxLoads : LoadTransactionFailed(slot)
    \/ \E slot \in 1..MaxLoads : LoadRefreshed(slot)

SpecReader == InitReader /\ [][NextReader]_vars

\* the number of persisted chunks of the book that is read
ChunkCount == Cardinality(ChunksOf(dbChunks, currentBook.id))

\* the prefetch effect calls onLoadMore(true) and the handler takes the slot
PrefetchIssued(slot) ==
    /\ loads[slot].pc = "idle"
    /\ loads'[slot].pc = "query"
    /\ loads'[slot].source = "prefetch"

\* C25: the prefetch issues a load more only from a mounted view, for a
\* chunk count larger than the one it last issued for, with at most
\* PREFETCH_THRESHOLD chunks from the active card on and with unprocessed
\* text left in the stored book; while the view stays mounted the chunk
\* count never decreases and the count last issued for changes only when
\* the prefetch issues, so no count is issued for twice.
C25_PrefetchOncePerChunkCount ==
    [][/\ \A slot \in 1..MaxLoads :
            PrefetchIssued(slot) =>
                /\ rv.mounted
                /\ rv.prefetchTriggeredRef < ChunkCount
                /\ rv'.prefetchTriggeredRef = ChunkCount
                /\ ChunkCount - rv.activeIndex <= PREFETCH_THRESHOLD
                /\ hasMoreContent(dbBooks[currentBook.id])
       /\ (rv.mounted /\ rv'.mounted) =>
                /\ ChunkCount' >= ChunkCount
                /\ rv'.prefetchTriggeredRef # rv.prefetchTriggeredRef =>
                       \E slot \in 1..MaxLoads : PrefetchIssued(slot)]_vars

\* ------------------------------------------ the processing indicator
\* Files are uploaded, articles are imported from a URL and more of the
\* open book is loaded by click; every await of a handler settles in time.
\* The variable upload holds the upload or the import in flight: the two
\* start from different pages, both hidden while the indicator is set.

\* the settings' 'web reader' entry: setAppState(AppState.WEB_READER)
openWebReader ==
    /\ upload.pc = "idle"
    /\ ~processingState.active
    /\ appState # "WEB_READER"
    /\ appState' = "WEB_READER"
    /\ rv' = Unmounted
    /\ UNCHANGED <<apiKey, dbBooks, dbChunks, currentBook, processingState, upload, loads>>
    /\ declined' = FALSE
    /\ UNCHANGED <<batchVars, chunkingVars>>

\* ---- handleUrlSubmit
UrlStart ==
    /\ upload.pc = "idle"
    /\ appState = "WEB_READER"
    /\ ~processingState.active
    /\ \E b \in 1..MaxBooks : dbBooks[b] = NoBook
    /\ processingState' = [active |-> TRUE]
    /\ upload' = [IdleUpload EXCEPT !.pc = "fetch"]
    /\ UNCHANGED <<apiKey, dbBooks, dbChunks, appState, currentBook, loads, rv>>
    /\ declined' = FALSE
    /\ UNCHANGED <<batchVars, chunkingVars>>

\* fetchAndParseArticle settles: it throws, or the content is too short, or
\* the article is raw and goes to cleanWebHtml, or it goes to detectGenre
UrlFetched ==
    /\ upload.pc = "fetch"
    /\ \/ /\ \E content \in UploadTexts \cup {Undefined} :
                content = Undefined \/ Len(content) < MIN_ARTICLE_LEN
          /\ processingState' = [active |-> FALSE]
          /\ upload' = IdleUpload
       \/ \E content \in UploadTexts, isRaw \in BOOLEAN :
          /\ Len(content) >= MIN_ARTICLE_LEN
          /\ processingState' = [active |-> TRUE]
          /\ upload' = [upload EXCEPT !.pc = IF isRaw THEN "clean" ELSE "urlGenre",
                                      !.text = content]
    /\ UNCHANGED <<apiKey, dbBooks, dbChunks, appState, currentBook, loads, rv>>
    /\ declined' = FALSE
    /\ UNCHANGED <<batchVars, chunkingVars>>

\* cleanWebHtml settles: its content replaces the raw one, or it throws and
\* the raw content is kept
UrlCleaned ==
    /\ upload.pc = "clean"
    /\ \E content \in UploadTexts \cup {Undefined} :
         upload' = [upload EXCEPT !.pc = "urlGenre",
                                  !.text = IF content = Undefined THEN @ ELSE content]
    /\ processingState' = [active |-> TRUE]
    /\ UNCHANGED <<apiKey, dbBooks, dbChunks, appState, currentBook, loads, rv>>
    /\ declined' = FALSE
    /\ UNCHANGED <<batchVars, chunkingVars>>

\* detectGenre settles: on a rejection the catch block ends the import,
\* otherwise the whole article goes to semanticChunking
UrlGenre ==
    /\ upload.pc = "urlGenre"
    /\ \E online \in BOOLEAN, outcome \in GenreOutcomes :
         IF detectGenre("current", apiKey, online, outcome).status = "rejected"
         THEN /\ processingState' = [active |-> FALSE]
              /\ upload' = IdleUpload
         ELSE /\ processingState' = [active |-> TRUE]
              /\ upload' = [upload EXCEPT
                    !.pc = "urlChunking",
                    !.firstBatchEnd = Len(upload.text),
                    !.bookId = CHOOSE b \in 1..MaxBooks :
                                  dbBooks[b] = NoBook /\ \A c \in 1..(b - 1) : dbBooks[c] # NoBook]
    /\ UNCHANGED <<apiKey, dbBooks, dbChunks, appState, currentBook, loads, rv>>
    /\ declined' = FALSE
    /\ UNCHANGED <<batchVars, chunkingVars>>

\* semanticChunking(article.textContent, bookId, 0, undefined, ...) settles
UrlChunked ==
    /\ upload.pc = "urlChunking"
    /\ \E response \in AppResponses :
         LET r == semanticChunking(apiKey, upload.text, upload.bookId, 0, Undefined, response)
         IN IF r.status = "rejected"
            THEN /\ processingState' = [active |-> FALSE]
                 /\ upload' = IdleUpload
            ELSE /\ upload' = [upload EXCEPT !.pc = "urlTx", !.chunks = WithIds(r.chunks, FreshId)]
                 /\ UNCHANGED processingState
    /\ UNCHANGED <<apiKey, dbBooks, dbChunks, appState, currentBook, loads, rv>>
    /\ declined' = FALSE
    /\ UNCHANGED <<batchVars, chunkingVars>>

\* the transaction that adds the article and its chunks commits or fails
UrlSaved ==
    /\ upload.pc = "urlTx"
    /\ \/ /\ dbBooks' = [dbBooks EXCEPT ![upload.bookId] = newBook(upload)]
          /\ dbChunks' = dbChunks \cup upload.chunks
          /\ currentBook' = newBook(upload)
          /\ appState' = "READING"
       \/ UNCHANGED <<dbBooks, dbChunks, currentBook, appState>>
    /\ processingState' = [active |-> FALSE]
    /\ upload' = IdleUpload
    /\ rv' = Render(rv, FALSE, appState', currentBook')
    /\ UNCHANGED <<apiKey, loads>>
    /\ declined' = FALSE
    /\ UNCHANGED <<batchVars, chunkingVars>>

NextProcessing ==
    \/ UploadStart
    \/ UploadExtracted
    \/ UploadGenre
    \/ UploadChunked
    \/ UploadSaved
    \/ openWebReader
    \/ UrlStart
    \/ UrlFetched
    \/ UrlCleaned
    \/ UrlGenre
    \/ UrlChunked
    \/ UrlSaved
    \/ ClickLoadMore
    \/ \E slot \in 1..MaxLoads : LoadQueried(slot)
    \/ \E slot \in 1..MaxLoads : LoadChunked(slot)
    \/ \E slot \in 1..MaxLoads : LoadCommitted(slot)
    \/ \E slot \in 1..MaxLoads : LoadTransactionFailed(slot)
    \/ \E slot \in 1..MaxLoads : LoadRefreshed(slot)

\* the await an upload or an import is waiting for settles
UploadSettles ==
    \/ UploadExtracted \/ UploadGenre \/ UploadChunked \/ UploadSaved
    \/ UrlFetched \/ UrlCleaned \/ UrlGenre \/ UrlChunked \/ UrlSaved

\* the await the load more in the slot is waiting for settles
LoadSettles(slot) ==
    \/ LoadQueried(slot) \/ LoadChunked(slot)
    \/ LoadCommitted(slot) \/ LoadTransactionFailed(slot)
    \/ LoadRefreshed(slot)

\* every await of a handler in flight settles
AwaitsSettle ==
    /\ WF_vars(UploadSettles)
    /\ \A slot \in 1..MaxLoads : WF_vars(LoadSettles(slot))

SpecProcessing == InitApp /\ [][NextProcessing]_vars /\ AwaitsSettle

\* C27: whenever the processing indicator is set it is cleared later, and
\* every upload, import and load more that ends leaves it cleared.
C27_ProcessingEnds ==
    /\ processingState.active ~> ~processingState.active
    /\ [][/\ (upload.pc # "idle" /\ upload'.pc = "idle") => ~processingState'.active
          /\ \A slot \in 1..MaxLoads :
                (loads[slot].pc # "idle" /\ loads'[slot].pc = "idle") =>
                    ~processingState'.active]_vars

\* an import from a URL has set the indicator and reached its database
\* write with the chunks of the article
C27_Witness ==
    /\ processingState.active
    /\ upload.pc = "urlTx"
    /\ upload.chunks # {}

====
